---- MODULE Spec2Model ----
(***************************************************************************)
(* Model of the plagiarism checker: citation heuristics, neighbour-query   *)
(* detection, pair aggregation, pair details, the pipeline orchestrator    *)
(* and its report writer.                                                  *)
(*                                                                         *)
(* Units.  Similarities are hundredths (0.82 is 82), citation penalties    *)
(* are tenths (0.3 is 3), adjusted similarities are therefore thousandths. *)
(* Fractions (coverage, mean, score) are exact, kept as [num, den].        *)
(* Record indices are zero-based as in the source; index -1 is the padding *)
(* label of the vector index and, as a Python subscript, the last record.  *)
(***************************************************************************)
EXTENDS Integers, Sequences, FiniteSets, TLC

(***************************************************************************)
(* Bounds of the model.                                                    *)
(***************************************************************************)
MaxSpans == 3
MaxPerLevel == 2
MaxK == 2
MaxTextLen == 3
MaxTexts == 4
MaxWorkers == 3
MaxArgs == 2

(***************************************************************************)
(* Program constants.                                                      *)
(***************************************************************************)
SearchExtra == 5
IndexTopK == 5
SimilarityThreshold == 82
ParaTopK == 3
ParaThreshold == 75
MaxHitsPerPair == 50
HitNorm == 50
PenaltyBoth == 3
PenaltyOne == 6
PenaltyNone == 10
WMean == 40
WCoverage == 35
WMax == 15
WHit == 10
WParaMean == 45
WParaCoverage == 35
WParaMax == 20
PreviewLen == 200
PadIndex == -1
PadScore == -1000

(***************************************************************************)
(* Texts are sequences of characters.                                      *)
(***************************************************************************)
Quote == "\""
Digits == {"1"}
Apostrophe == "'"
Alphabet == {"a", "1", "[", "]", Quote, Apostrophe}

SeqsUpTo(S, n) == UNION {[1..m -> S] : m \in 0..n}

Texts == SeqsUpTo(Alphabet, MaxTextLen)

Plain == <<"a">>
Cited == <<"[", "1", "]">>
CorpusTexts == {Plain, Cited}

\* re.search(r'\[[0-9]+\]', text)
MatchBracketNumber(text) ==
    \E s \in 1..Len(text) : \E e \in (s + 2)..Len(text) :
        /\ text[s] = "["
        /\ text[e] = "]"
        /\ \A m \in (s + 1)..(e - 1) : text[m] \in Digits

\* re.search(r'"[^"]+"', text)
MatchDoubleQuoted(text) ==
    \E s \in 1..Len(text) : \E e \in (s + 2)..Len(text) :
        /\ text[s] = Quote
        /\ text[e] = Quote
        /\ \A m \in (s + 1)..(e - 1) : text[m] # Quote

\* re.search(r"'[^']+'", text)
MatchSingleQuoted(text) ==
    \E s \in 1..Len(text) : \E e \in (s + 2)..Len(text) :
        /\ text[s] = Apostrophe
        /\ text[e] = Apostrophe
        /\ \A m \in (s + 1)..(e - 1) : text[m] # Apostrophe

has_citation_marker(text) == MatchBracketNumber(text)

has_quotation_mark(text) == MatchDoubleQuoted(text) \/ MatchSingleQuoted(text)

is_likely_citation(text) == has_citation_marker(text) \/ has_quotation_mark(text)

\* the one-sided branch testing text_a only
compute_citation_penalty_one_sided(ta, tb, sim) ==
    LET has_cite_a == is_likely_citation(ta)
        has_cite_b == is_likely_citation(tb)
    IN  IF has_cite_a /\ has_cite_b THEN PenaltyBoth
        ELSE IF has_cite_a THEN PenaltyOne
        ELSE PenaltyNone

compute_citation_penalty(ta, tb, sim) ==
    LET has_cite_a == is_likely_citation(ta)
        has_cite_b == is_likely_citation(tb)
    IN  IF has_cite_a /\ has_cite_b THEN PenaltyBoth
        ELSE IF has_cite_a \/ has_cite_b THEN PenaltyOne
        ELSE PenaltyNone

(***************************************************************************)
(* Corpus loader.  A directory lists, in file-iteration order, the spans   *)
(* extracted from each file: [sid, text].  The loader numbers the spans of *)
(* one file from zero.                                                     *)
(***************************************************************************)
Sids == {"A", "B", "C"}
SidOrd == [s \in Sids |-> CASE s = "A" -> 1 [] s = "B" -> 2 [] OTHER -> 3]

PositionInFile(spans, n) ==
    Cardinality({m \in 1..(n - 1) : spans[m].sid = spans[n].sid})

load_corpus(spans) ==
    [n \in 1..Len(spans) |->
        [sid |-> spans[n].sid, did |-> spans[n].sid,
         sent_id |-> PositionInFile(spans, n), text |-> spans[n].text]]

load_paragraphs(spans) ==
    [n \in 1..Len(spans) |->
        [sid |-> spans[n].sid, did |-> spans[n].sid,
         para_id |-> PositionInFile(spans, n), text |-> spans[n].text]]

\* the span lists a directory of files named A, B, C can hold
FileOrdered(spans) ==
    \A n \in 1..(Len(spans) - 1) : SidOrd[spans[n].sid] <= SidOrd[spans[n + 1].sid]

SpanLists(max) ==
    {spans \in SeqsUpTo([sid : Sids, text : CorpusTexts], max) : FileOrdered(spans)}

(***************************************************************************)
(* Embedding and index.  The encoder is a function of the text, so equal   *)
(* texts have inner product 1.0; the inner product of the two distinct     *)
(* corpus texts is the model's free parameter enc.                         *)
(***************************************************************************)
SimValues == {ParaThreshold - 1, ParaThreshold, SimilarityThreshold - 1,
              SimilarityThreshold}

InnerProduct(enc, ta, tb) == IF ta = tb THEN 100 ELSE enc

\* recs[j] with a Python subscript: zero-based, negative counts from the end
Row(recs, j) == recs[IF j < 0 THEN Len(recs) + j + 1 ELSE j + 1]

Orderings(n) ==
    {ord \in [1..n -> 0..(n - 1)] : \A a, b \in 1..n : a # b => ord[a] # ord[b]}

\* index.search(query, kk) on an index holding vecs: the kk best rows by
\* descending inner product, ties in any order, missing neighbours padded
\* with label -1
SearchResults(vecs, enc, query, kk) ==
    LET n == Len(vecs)
        ip(j) == InnerProduct(enc, query, vecs[j + 1])
        sorted == {ord \in Orderings(n) :
                      \A a \in 1..(n - 1) : ip(ord[a]) >= ip(ord[a + 1])}
    IN  {[p \in 1..kk |-> IF p <= n THEN [sim |-> ip(ord[p]), j |-> ord[p]]
                          ELSE [sim |-> PadScore, j |-> PadIndex]] : ord \in sorted}

(***************************************************************************)
(* Pair detection.  pair_hits is an insertion-ordered dictionary, kept as  *)
(* a sequence of [pair, hits] entries.                                     *)
(***************************************************************************)
SortedPair(s, t) == IF SidOrd[s] <= SidOrd[t] THEN <<s, t>> ELSE <<t, s>>

KeyIndex(ph, key) ==
    IF \E n \in 1..Len(ph) : ph[n].pair = key
    THEN CHOOSE n \in 1..Len(ph) : ph[n].pair = key
    ELSE 0

DictGet(ph, key) == IF KeyIndex(ph, key) = 0 THEN <<>> ELSE ph[KeyIndex(ph, key)].hits

\* a hit dropped when the list already holds it in the other direction
DictAppendOncePerPair(ph, key, hit) ==
    IF KeyIndex(ph, key) = 0
    THEN Append(ph, [pair |-> key, hits |-> <<hit>>])
    ELSE IF \E m \in 1..Len(ph[KeyIndex(ph, key)].hits) :
                /\ ph[KeyIndex(ph, key)].hits[m].i = hit.j
                /\ ph[KeyIndex(ph, key)].hits[m].j = hit.i
         THEN ph
         ELSE [ph EXCEPT ![KeyIndex(ph, key)].hits = Append(@, hit)]

DictAppend(ph, key, hit) ==
    IF KeyIndex(ph, key) = 0
    THEN Append(ph, [pair |-> key, hits |-> <<hit>>])
    ELSE [ph EXCEPT ![KeyIndex(ph, key)].hits = Append(@, hit)]

\* the key left in query order
PairKeyUnsorted(sid_i, sid_j) == <<sid_i, sid_j>>

\* tuple(sorted((sid_i, sid_j)))
PairKey(sid_i, sid_j) == SortedPair(sid_i, sid_j)

\* the same-submission test dropped
SameSubmissionIgnored(recs, i, j) == FALSE

\* sid_i == sid_j
SameSubmission(recs, i, j) == Row(recs, i).sid = Row(recs, j).sid

\* the threshold test dropped
BelowThresholdIgnored(sim, threshold) == FALSE

\* an exclusive threshold
BelowThresholdExclusive(sim, threshold) == sim <= threshold

\* sim < threshold
BelowThreshold(sim, threshold) == sim < threshold

RECURSIVE ScanCandidates(_, _, _, _, _, _, _, _)
\* the inner loop of detect_pairs over the search result res, from position p
ScanCandidates(recs, i, res, p, taken, k, threshold, ph) ==
    IF p > Len(res) THEN ph
    ELSE LET sim == res[p].sim
             j == res[p].j
             skip == ScanCandidates(recs, i, res, p + 1, taken, k, threshold, ph)
         IN  IF j = i THEN skip
             ELSE IF SameSubmission(recs, i, j) THEN skip
             ELSE IF BelowThreshold(sim, threshold) THEN skip
             ELSE LET ph2 == DictAppend(ph, PairKey(Row(recs, i).sid, Row(recs, j).sid),
                                        [i |-> i, j |-> j, sim |-> sim])
                  IN  IF taken + 1 >= k THEN ph2
                      ELSE ScanCandidates(recs, i, res, p + 1, taken + 1, k, threshold, ph2)

\* the inner loop without its "if taken >= k: break"
DetectQueryUnlimited(recs, i, res, k, threshold, ph) ==
    ScanCandidates(recs, i, res, 1, 0, Len(res) + 1, threshold, ph)

\* one iteration of the outer loop of detect_pairs / detect_paragraph_pairs
DetectQuery(recs, i, res, k, threshold, ph) ==
    ScanCandidates(recs, i, res, 1, 0, k, threshold, ph)

(***************************************************************************)
(* Exact fractions.                                                        *)
(***************************************************************************)
Frac(n, d) == [num |-> n, den |-> d]

RECURSIVE FracLeqParts(_, _, _, _)
\* n1/d1 <= n2/d2 for non-negative numerators and positive denominators,
\* compared by continued-fraction expansion
FracLeqParts(n1, d1, n2, d2) ==
    LET q1 == n1 \div d1
        q2 == n2 \div d2
        r1 == n1 % d1
        r2 == n2 % d2
    IN  IF q1 # q2 THEN q1 < q2
        ELSE IF r1 = 0 THEN TRUE
        ELSE IF r2 = 0 THEN FALSE
        ELSE FracLeqParts(d2, r2, d1, r1)

FracLeq(x, y) == FracLeqParts(x.num, x.den, y.num, y.den)
FracLess(x, y) == ~FracLeq(y, x)
FracEq(x, y) == FracLeq(x, y) /\ FracLeq(y, x)
FracMin(x, y) == IF FracLeq(x, y) THEN x ELSE y

RECURSIVE SumSeq(_)
SumSeq(q) == IF q = <<>> THEN 0 ELSE q[1] + SumSeq(Tail(q))

RECURSIVE MaxSeq(_)
MaxSeq(q) ==
    IF Len(q) = 1 THEN q[1]
    ELSE LET m == MaxSeq(Tail(q)) IN IF q[1] >= m THEN q[1] ELSE m

Min(a, b) == IF a <= b THEN a ELSE b

(***************************************************************************)
(* Aggregation.                                                            *)
(***************************************************************************)
SpanCount(recs, sid) == Cardinality({n \in 1..Len(recs) : recs[n].sid = sid})

\* adjusted similarity of one hit, in thousandths
AdjustedSim(recs, hit, use_citation_penalty) ==
    IF use_citation_penalty
    THEN hit.sim * compute_citation_penalty(Row(recs, hit.i).text, Row(recs, hit.j).text, hit.sim)
    ELSE hit.sim * 10

\* sentences_a and sentences_b of aggregate_pairs
SentencesA(rws, hits, sid_a) ==
    {Row(rws, hits[n].i).sent_id :
        n \in {m \in 1..Len(hits) : Row(rws, hits[m].i).sid = sid_a}}

SentencesB(rws, hits, sid_b) ==
    {Row(rws, hits[n].j).sent_id :
        n \in {m \in 1..Len(hits) : Row(rws, hits[m].j).sid = sid_b}}

Coverage(covered, total) == Frac(Cardinality(covered), total)

HitRatio(count) == Frac(Min(count, HitNorm), HitNorm)

\* the weights not summing to one: 0.60 for the mean
SentenceScoreOverweight(sum, count, max, cov, hr) ==
    Frac(60 * sum * hr.den * cov.den
           + WCoverage * cov.num * 1000 * hr.den * count
           + WMax * max * hr.den * count * cov.den
           + WHit * hr.num * 1000 * count * cov.den,
         100 * 1000 * hr.den * count * cov.den)

\* 0.40 * mean_sim + 0.35 * coverage_min + 0.15 * max_sim + 0.10 * hit_ratio
\* with mean_sim = sum / (1000 * count) and max_sim = max / 1000
SentenceScore(sum, count, max, cov, hr) ==
    Frac(WMean * sum * hr.den * cov.den
           + WCoverage * cov.num * 1000 * hr.den * count
           + WMax * max * hr.den * count * cov.den
           + WHit * hr.num * 1000 * count * cov.den,
         100 * 1000 * hr.den * count * cov.den)

\* the summary aggregate_pairs builds for one dictionary entry
PairSummary(rws, entry, use_citation_penalty) ==
    LET sid_a == entry.pair[1]
        sid_b == entry.pair[2]
        hits == entry.hits
        sims == [n \in 1..Len(hits) |-> AdjustedSim(rws, hits[n], use_citation_penalty)]
        coverage_a == Coverage(SentencesA(rws, hits, sid_a), SpanCount(rws, sid_a))
        coverage_b == Coverage(SentencesB(rws, hits, sid_b), SpanCount(rws, sid_b))
        coverage_min == FracMin(coverage_a, coverage_b)
        hit_ratio == HitRatio(Len(hits))
    IN  [pair |-> entry.pair,
         count |-> Len(hits),
         mean_sim |-> Frac(SumSeq(sims), 1000 * Len(hits)),
         max_sim |-> Frac(MaxSeq(sims), 1000),
         coverage_min |-> coverage_min,
         coverage_a |-> coverage_a,
         coverage_b |-> coverage_b,
         student_a_sent_total |-> SpanCount(rws, sid_a),
         student_b_sent_total |-> SpanCount(rws, sid_b),
         score |-> SentenceScore(SumSeq(sims), Len(hits), MaxSeq(sims),
                                 coverage_min, hit_ratio)]

\* stats.sort(key=score, reverse=True): stable, equal scores keep their order
InsertByScore(sorted, e) ==
    LET before == {p \in 1..Len(sorted) : FracLess(sorted[p].score, e.score)}
        pos == IF before = {} THEN Len(sorted) + 1
               ELSE CHOOSE p \in before : \A r \in before : p <= r
    IN  SubSeq(sorted, 1, pos - 1) \o <<e>> \o SubSeq(sorted, pos, Len(sorted))

\* the summaries left in dictionary order
SortByScoreSkipped(q) == q

RECURSIVE SortByScore(_)
SortByScore(q) ==
    IF q = <<>> THEN <<>>
    ELSE InsertByScore(SortByScore(SubSeq(q, 1, Len(q) - 1)), q[Len(q)])

RECURSIVE Summaries(_, _, _)
\* the loop of aggregate_pairs over pair_hits.items()
Summaries(rws, ph, use_citation_penalty) ==
    IF ph = <<>> THEN <<>>
    ELSE LET rest == Summaries(rws, Tail(ph), use_citation_penalty)
         IN  IF ph[1].hits = <<>> THEN rest
             ELSE <<PairSummary(rws, ph[1], use_citation_penalty)>> \o rest

aggregate_pairs(rws, ph, use_citation_penalty) ==
    SortByScore(Summaries(rws, ph, use_citation_penalty))

ParasA(prs, hits, sid_a) ==
    {Row(prs, hits[n].i).para_id :
        n \in {m \in 1..Len(hits) : Row(prs, hits[m].i).sid = sid_a}}

ParasB(prs, hits, sid_b) ==
    {Row(prs, hits[n].j).para_id :
        n \in {m \in 1..Len(hits) : Row(prs, hits[m].j).sid = sid_b}}

ParaCoverage(covered, total) ==
    IF total > 0 THEN Frac(Cardinality(covered), total) ELSE Frac(0, 1)

\* 0.45 * mean_sim + 0.35 * coverage_min + 0.20 * max_sim, sims in hundredths
ParagraphScore(sum, count, max, cov) ==
    Frac(WParaMean * sum * cov.den
           + WParaCoverage * cov.num * 100 * count
           + WParaMax * max * count * cov.den,
         100 * 100 * count * cov.den)

ParaSummary(prs, entry) ==
    LET sid_a == entry.pair[1]
        sid_b == entry.pair[2]
        hits == entry.hits
        sims == [n \in 1..Len(hits) |-> hits[n].sim]
        coverage_a == ParaCoverage(ParasA(prs, hits, sid_a), SpanCount(prs, sid_a))
        coverage_b == ParaCoverage(ParasB(prs, hits, sid_b), SpanCount(prs, sid_b))
        coverage_min == FracMin(coverage_a, coverage_b)
    IN  [pair |-> entry.pair,
         count |-> Len(hits),
         mean_sim |-> Frac(SumSeq(sims), 100 * Len(hits)),
         max_sim |-> Frac(MaxSeq(sims), 100),
         coverage_min |-> coverage_min,
         coverage_a |-> coverage_a,
         coverage_b |-> coverage_b,
         student_a_para_total |-> SpanCount(prs, sid_a),
         student_b_para_total |-> SpanCount(prs, sid_b),
         score |-> ParagraphScore(SumSeq(sims), Len(hits), MaxSeq(sims), coverage_min)]

RECURSIVE ParaSummaries(_, _)
ParaSummaries(prs, ph) ==
    IF ph = <<>> THEN <<>>
    ELSE LET rest == ParaSummaries(prs, Tail(ph))
         IN  IF ph[1].hits = <<>> THEN rest
             ELSE <<ParaSummary(prs, ph[1])>> \o rest

aggregate_paragraph_pairs(prs, ph) == SortByScore(ParaSummaries(prs, ph))

(***************************************************************************)
(* Pair details.                                                           *)
(***************************************************************************)
\* the hit list taken whole, without the [:max_hits] slice
TakeAll(q, n) == q

\* q[:n] for n >= 0
Take(q, n) == SubSeq(q, 1, Min(n, Len(q)))

\* the hit listed with its raw similarity only, the penalty not recomputed
NormalizedHitUnpenalised(rws, hit) ==
    LET rec_i == Row(rws, hit.i)
        rec_j == Row(rws, hit.j)
    IN  [i |-> hit.i, j |-> hit.j, sim |-> hit.sim,
         adjusted_sim |-> hit.sim * PenaltyNone,
         citation_penalty |-> PenaltyNone,
         sid_i |-> rec_i.sid, sid_j |-> rec_j.sid,
         did_i |-> rec_i.did, did_j |-> rec_j.did,
         sent_id_i |-> rec_i.sent_id, sent_id_j |-> rec_j.sent_id,
         text_i |-> rec_i.text, text_j |-> rec_j.text]

\* one entry of normalized_hits
NormalizedHit(rws, hit) ==
    LET rec_i == Row(rws, hit.i)
        rec_j == Row(rws, hit.j)
        citation_penalty == compute_citation_penalty(rec_i.text, rec_j.text, hit.sim)
    IN  [i |-> hit.i, j |-> hit.j, sim |-> hit.sim,
         adjusted_sim |-> hit.sim * citation_penalty,
         citation_penalty |-> citation_penalty,
         sid_i |-> rec_i.sid, sid_j |-> rec_j.sid,
         did_i |-> rec_i.did, did_j |-> rec_j.did,
         sent_id_i |-> rec_i.sent_id, sent_id_j |-> rec_j.sent_id,
         text_i |-> rec_i.text, text_j |-> rec_j.text]

OtherEntry(rec, sim) ==
    [other_sid |-> rec.sid, other_sent_id |-> rec.sent_id,
     other_text |-> rec.text, sim |-> sim]

RECURSIVE EntryHits(_, _, _, _)
\* the "hits" list that the loop over hits_raw builds for sentence (sid, sent_id)
EntryHits(rws, hits, sid, sent_id) ==
    IF hits = <<>> THEN <<>>
    ELSE LET rec_i == Row(rws, hits[1].i)
             rec_j == Row(rws, hits[1].j)
             left == IF rec_i.sid = sid /\ rec_i.sent_id = sent_id
                     THEN <<OtherEntry(rec_j, hits[1].sim)>> ELSE <<>>
             right == IF rec_j.sid = sid /\ rec_j.sent_id = sent_id
                      THEN <<OtherEntry(rec_i, hits[1].sim)>> ELSE <<>>
         IN  left \o right \o EntryHits(rws, Tail(hits), sid, sent_id)

\* the record ensure_entry creates first for (sid, sent_id)
FirstRecord(rws, hits, sid, sent_id) ==
    LET touches(n) == \/ (Row(rws, hits[n].i).sid = sid /\ Row(rws, hits[n].i).sent_id = sent_id)
                      \/ (Row(rws, hits[n].j).sid = sid /\ Row(rws, hits[n].j).sent_id = sent_id)
        first == CHOOSE n \in 1..Len(hits) :
                    touches(n) /\ \A m \in 1..(n - 1) : ~touches(m)
        rec_i == Row(rws, hits[first].i)
    IN  IF rec_i.sid = sid /\ rec_i.sent_id = sent_id THEN rec_i
        ELSE Row(rws, hits[first].j)

\* the nested dictionary sentences[sid][sent_id]
SentenceIndex(rws, hits) ==
    LET recsOf == {Row(rws, hits[n].i) : n \in 1..Len(hits)}
                    \cup {Row(rws, hits[n].j) : n \in 1..Len(hits)}
        sids == {r.sid : r \in recsOf}
        idsOf(sid) == {r.sent_id : r \in {x \in recsOf : x.sid = sid}}
    IN  [sid \in sids |->
            [sent_id \in idsOf(sid) |->
                [text |-> FirstRecord(rws, hits, sid, sent_id).text,
                 did |-> FirstRecord(rws, hits, sid, sent_id).did,
                 hits |-> EntryHits(rws, hits, sid, sent_id)]]]

PairDetail(rws, summary, ph, max_hits) ==
    LET hits_raw == Take(DictGet(ph, summary.pair), max_hits)
    IN  [pair |-> summary.pair,
         count |-> summary.count,
         mean_sim |-> summary.mean_sim,
         max_sim |-> summary.max_sim,
         coverage_min |-> summary.coverage_min,
         coverage_a |-> summary.coverage_a,
         coverage_b |-> summary.coverage_b,
         student_a_sent_total |-> summary.student_a_sent_total,
         student_b_sent_total |-> summary.student_b_sent_total,
         score |-> summary.score,
         hits |-> [n \in 1..Len(hits_raw) |-> NormalizedHit(rws, hits_raw[n])],
         sentences |-> SentenceIndex(rws, hits_raw)]

build_pair_details(rws, sts, ph, max_hits) ==
    [n \in 1..Len(sts) |-> PairDetail(rws, sts[n], ph, max_hits)]

\* text[:200] + "..." for texts longer than 200 characters
Preview(text) ==
    IF Len(text) > PreviewLen THEN SubSeq(text, 1, PreviewLen) \o <<".", ".", ".">>
    ELSE text

ParaMatch(prs, hit) ==
    LET para_i == Row(prs, hit.i)
        para_j == Row(prs, hit.j)
    IN  [sid_i |-> para_i.sid, sid_j |-> para_j.sid,
         para_id_i |-> para_i.para_id, para_id_j |-> para_j.para_id,
         sim |-> hit.sim,
         text_i |-> Preview(para_i.text), text_j |-> Preview(para_j.text)]

ParaDetail(prs, summary, ph, max_hits) ==
    LET hits_raw == Take(DictGet(ph, summary.pair), max_hits)
    IN  [pair |-> summary.pair,
         score |-> summary.score,
         count |-> summary.count,
         mean_sim |-> summary.mean_sim,
         max_sim |-> summary.max_sim,
         coverage_min |-> summary.coverage_min,
         coverage_a |-> summary.coverage_a,
         coverage_b |-> summary.coverage_b,
         matches |-> [n \in 1..Len(hits_raw) |-> ParaMatch(prs, hits_raw[n])]]

build_para_details(prs, sts, ph, max_hits) ==
    [n \in 1..Len(sts) |-> ParaDetail(prs, sts[n], ph, max_hits)]

(***************************************************************************)
(* The pipeline orchestrator.                                              *)
(***************************************************************************)
VARIABLES
    dir,            \* submissions directory: [sents, paras], the spans its files hold
    enc,            \* inner product the encoder gives the two distinct corpus texts
    entry,          \* who constructed the pipeline: script, cli, dashboard, library
    call,           \* the method the entry point calls: run or run_with_paragraphs
    cfg,            \* PipelineConfig
    pc,             \* position in the run
    rows,           \* sentence records
    embeddings,     \* [builder, vectors] of the sentence pass
    index,          \* rows added to the sentence index
    qi,             \* loop variable i of detect_pairs / detect_paragraph_pairs
    pair_hits,
    stats,
    details,
    paras,          \* paragraph records
    para_embeddings,
    para_index,
    para_pair_hits,
    para_stats,     \* None and [] are both the empty sequence
    para_details,
    outdir,         \* output directory: [exists, files], files maps name to content
    written,        \* names of the files written by write_reports in this run
    error,          \* message of the exception raised, "" if none
    text_a,         \* arguments and result of a direct compute_citation_penalty call
    text_b,
    similarity,
    penalty,
    mode,           \* dashboard: the detection-mode radio button
    target_widget,  \* dashboard: the file held by the target uploader
    results,        \* st.session_state.results
    temp_dir,       \* st.session_state.temp_dir
    selected_pair,  \* st.session_state.selected_pair
    target_file,    \* st.session_state.target_file
    detection_mode, \* st.session_state.detection_mode
    disk,           \* staging directories on disk: name -> uploaded files saved in it
    pressed,        \* session state as it was when Start Detection was pressed
    message,        \* what the last handler showed: "", "success", "error"
    hl_sim,         \* arguments and result of a get_highlight_class call
    hl_penalty,
    css_class,
    texts,          \* build_embeddings_parallel: its arguments and locals
    num_workers,
    chunks,
    chunk_results,  \* the chunks whose encode_chunk call has completed
    encoded,        \* the array returned
    argv,           \* the argument list handed to cli.main
    earlier         \* the output directory as an earlier invocation left it

vars == <<dir, enc, entry, call, cfg, pc, rows, embeddings, index, qi, pair_hits,
          stats, details, paras, para_embeddings, para_index, para_pair_hits,
          para_stats, para_details, outdir, written, error,
          text_a, text_b, similarity, penalty,
          mode, target_widget, results, temp_dir, selected_pair, target_file,
          detection_mode, disk, pressed, message,
          hl_sim, hl_penalty, css_class,
          texts, num_workers, chunks, chunk_results, encoded, argv, earlier>>

inputVars == <<dir, enc, entry, call, cfg>>
sentVars == <<rows, embeddings, index, pair_hits, stats, details>>
paraVars == <<paras, para_embeddings, para_index, para_pair_hits, para_stats, para_details>>
citeVars == <<text_a, text_b, similarity, penalty>>
widgetVars == <<mode, target_widget>>
sessionVars == <<results, temp_dir, selected_pair, target_file, detection_mode>>
dashVars == <<widgetVars, sessionVars, disk, pressed, message>>
highlightVars == <<hl_sim, hl_penalty, css_class>>
parallelVars == <<texts, num_workers, chunks, chunk_results, encoded>>
auxVars == <<dashVars, highlightVars, parallelVars, argv, earlier>>

NoEmbeddings == [builder |-> "none", vectors |-> <<>>]
NoDirectory == [exists |-> FALSE, files |-> <<>>]
EmptyDirectory == [exists |-> TRUE, files |-> <<>>]

Config(k, cit, par, mh, ml, up, dev) ==
    [index_top_k |-> k, similarity_threshold |-> SimilarityThreshold,
     max_hits_per_pair |-> mh,
     enable_paragraph_check |-> par, enable_citation_check |-> cit,
     enable_multilingual |-> ml, use_parallel |-> up, device |-> dev,
     para_top_k |-> ParaTopK, para_threshold |-> ParaThreshold]

\* main.py: the scripted default run
ScriptConfigs == {Config(IndexTopK, TRUE, TRUE, MaxHitsPerPair, FALSE, TRUE, "None")}

\* cli.py: every option the parser can produce, top-k and max-hits bounded
CliConfigs ==
    {Config(k, TRUE, par, mh, FALSE, FALSE, "None") :
        k \in 1..MaxK, par \in BOOLEAN, mh \in {1, MaxHitsPerPair}}

\* app.py run_detection: the sidebar toggles, other fields at their defaults
DashboardConfigs ==
    {Config(IndexTopK, cit, par, MaxHitsPerPair, FALSE, FALSE, "None") :
        cit \in BOOLEAN, par \in BOOLEAN}

\* the method each entry point calls for a configuration
EntryCall(config) == IF config.enable_paragraph_check THEN "run_with_paragraphs" ELSE "run"

Launches ==
    {[entry |-> "script", cfg |-> c, call |-> EntryCall(c), out |-> EmptyDirectory] :
        c \in ScriptConfigs}
    \cup {[entry |-> "cli", cfg |-> c, call |-> EntryCall(c), out |-> o] :
        c \in CliConfigs, o \in {NoDirectory, EmptyDirectory}}
    \cup {[entry |-> "dashboard", cfg |-> c, call |-> EntryCall(c), out |-> EmptyDirectory] :
        c \in DashboardConfigs}
    \cup {[entry |-> "library", cfg |-> c, call |-> "run_with_paragraphs", out |-> EmptyDirectory] :
        c \in {d \in DashboardConfigs : ~d.enable_paragraph_check}}

Directories(maxSents, maxParas) ==
    {[sents |-> s, paras |-> p] : s \in SpanLists(maxSents), p \in SpanLists(maxParas)}

\* directories holding at most MaxSpans spans, sentences and paragraphs together
BoundedDirectories ==
    {d \in Directories(MaxSpans, MaxSpans) : Len(d.sents) + Len(d.paras) <= MaxSpans}

InitRun ==
    /\ pc = "start"
    /\ rows = <<>>
    /\ embeddings = NoEmbeddings
    /\ index = <<>>
    /\ qi = 0
    /\ pair_hits = <<>>
    /\ stats = <<>>
    /\ details = <<>>
    /\ paras = <<>>
    /\ para_embeddings = NoEmbeddings
    /\ para_index = <<>>
    /\ para_pair_hits = <<>>
    /\ para_stats = <<>>
    /\ para_details = <<>>
    /\ written = {}
    /\ error = ""

NoCitationCall ==
    /\ text_a = <<>>
    /\ text_b = <<>>
    /\ similarity = 0
    /\ penalty = 0

\* an optional value: None is the empty tuple, a value v is <<v>>
None == <<>>
Some(v) == <<v>>

\* app.py: "initialize session state", before any script run has rendered
NoResults == None
SessionStart ==
    /\ results = NoResults
    /\ temp_dir = None
    /\ selected_pair = None
    /\ target_file = None
    /\ detection_mode = "all"

NoDashboard ==
    /\ mode = "Target-file detection"
    /\ target_widget = None
    /\ SessionStart
    /\ disk = <<>>
    /\ pressed = None
    /\ message = ""

NoHighlightCall ==
    /\ hl_sim = 0
    /\ hl_penalty = 0
    /\ css_class = ""

NoParallelCall ==
    /\ texts = <<>>
    /\ num_workers = 0
    /\ chunks = <<>>
    /\ chunk_results = <<>>
    /\ encoded = <<>>

NoCliCall == argv = <<>> /\ earlier = None

Init ==
    /\ dir \in BoundedDirectories
    /\ enc \in SimValues
    /\ \E l \in Launches :
        /\ entry = l.entry
        /\ cfg = l.cfg
        /\ call = l.call
        /\ outdir = l.out
    /\ InitRun
    /\ NoCitationCall
    /\ NoDashboard
    /\ NoHighlightCall
    /\ NoParallelCall
    /\ NoCliCall

\* the parallel flag tested before the multilingual flag
SelectBuilderParallelFirst(config) ==
    IF config.use_parallel /\ (config.device = "None" \/ config.device = "cpu")
    THEN "build_embeddings_parallel"
    ELSE IF config.enable_multilingual THEN "build_multilingual_embeddings"
    ELSE "build_embeddings"

\* the embedding builder chosen by run() and by the paragraph pass
SelectBuilder(config) ==
    IF config.enable_multilingual THEN "build_multilingual_embeddings"
    ELSE IF config.use_parallel /\ (config.device = "None" \/ config.device = "cpu")
         THEN "build_embeddings_parallel"
    ELSE "build_embeddings"

\* one row per text, in input order
Encode(config, recs) ==
    [builder |-> SelectBuilder(config), vectors |-> [n \in 1..Len(recs) |-> recs[n].text]]

\* run() without the empty-corpus check
LoadCorpusUnchecked ==
    /\ pc = "start"
    /\ rows' = load_corpus(dir.sents)
    /\ pc' = "embed"
    /\ UNCHANGED <<inputVars, embeddings, index, qi, pair_hits, stats, details,
                   paraVars, outdir, written, error, citeVars, auxVars>>

\* run(): rows = load_corpus(...); if not rows: raise RuntimeError
LoadCorpus ==
    /\ pc = "start"
    /\ rows' = load_corpus(dir.sents)
    /\ IF rows' = <<>>
       THEN pc' = "failed" /\ error' = "no valid text found"
       ELSE pc' = "embed" /\ error' = error
    /\ UNCHANGED <<inputVars, embeddings, index, qi, pair_hits, stats, details,
                   paraVars, outdir, written, citeVars, auxVars>>

BuildEmbeddings ==
    /\ pc = "embed"
    /\ embeddings' = Encode(cfg, rows)
    /\ pc' = "index"
    /\ UNCHANGED <<inputVars, rows, index, qi, pair_hits, stats, details,
                   paraVars, outdir, written, error, citeVars, auxVars>>

BuildIndex ==
    /\ pc = "index"
    /\ index' = embeddings.vectors
    /\ qi' = 0
    /\ pc' = "detect"
    /\ UNCHANGED <<inputVars, rows, embeddings, pair_hits, stats, details,
                   paraVars, outdir, written, error, citeVars, auxVars>>

\* detect_pairs: one iteration of "for i, row in enumerate(rows)"
DetectPairsStep ==
    /\ pc = "detect"
    /\ qi < Len(rows)
    /\ \E res \in SearchResults(index, enc, embeddings.vectors[qi + 1],
                                cfg.index_top_k + SearchExtra) :
        pair_hits' = DetectQuery(rows, qi, res, cfg.index_top_k,
                                 cfg.similarity_threshold, pair_hits)
    /\ qi' = qi + 1
    /\ pc' = IF qi + 1 = Len(rows) THEN "aggregate" ELSE "detect"
    /\ UNCHANGED <<inputVars, rows, embeddings, index, stats, details,
                   paraVars, outdir, written, error, citeVars, auxVars>>

AggregatePairs ==
    /\ pc = "aggregate"
    /\ stats' = aggregate_pairs(rows, pair_hits, cfg.enable_citation_check)
    /\ pc' = "details"
    /\ UNCHANGED <<inputVars, rows, embeddings, index, qi, pair_hits, details,
                   paraVars, outdir, written, error, citeVars, auxVars>>

\* build_pair_details, then run() returns to its caller
BuildPairDetails ==
    /\ pc = "details"
    /\ details' = build_pair_details(rows, stats, pair_hits, cfg.max_hits_per_pair)
    /\ pc' = IF call = "run" THEN "write" ELSE "para_load"
    /\ UNCHANGED <<inputVars, rows, embeddings, index, qi, pair_hits, stats,
                   paraVars, outdir, written, error, citeVars, auxVars>>

\* run_with_paragraphs treating an empty paragraph list as run() treats rows
LoadParagraphsStrict ==
    /\ pc = "para_load"
    /\ IF ~cfg.enable_paragraph_check
       THEN paras' = paras /\ pc' = "write" /\ error' = error
       ELSE /\ paras' = load_paragraphs(dir.paras)
            /\ IF paras' = <<>>
               THEN pc' = "failed" /\ error' = "no valid text found"
               ELSE pc' = "para_embed" /\ error' = error
    /\ UNCHANGED <<inputVars, sentVars, qi, para_embeddings, para_index,
                   para_pair_hits, para_stats, para_details, outdir, written,
                   citeVars, auxVars>>

\* run_with_paragraphs after run(): the two early returns and load_paragraphs
LoadParagraphs ==
    /\ pc = "para_load"
    /\ IF ~cfg.enable_paragraph_check
       THEN paras' = paras /\ pc' = "write"
       ELSE /\ paras' = load_paragraphs(dir.paras)
            /\ pc' = IF paras' = <<>> THEN "write" ELSE "para_embed"
    /\ UNCHANGED <<inputVars, sentVars, qi, para_embeddings, para_index,
                   para_pair_hits, para_stats, para_details, outdir, written,
                   error, citeVars, auxVars>>

BuildParaEmbeddings ==
    /\ pc = "para_embed"
    /\ para_embeddings' = Encode(cfg, paras)
    /\ pc' = "para_index"
    /\ UNCHANGED <<inputVars, sentVars, qi, paras, para_index, para_pair_hits,
                   para_stats, para_details, outdir, written, error, citeVars, auxVars>>

BuildParaIndex ==
    /\ pc = "para_index"
    /\ para_index' = para_embeddings.vectors
    /\ qi' = 0
    /\ pc' = "para_detect"
    /\ UNCHANGED <<inputVars, sentVars, paras, para_embeddings, para_pair_hits,
                   para_stats, para_details, outdir, written, error, citeVars, auxVars>>

\* detect_paragraph_pairs: one iteration of "for i, para in enumerate(paras)"
DetectParagraphStep ==
    /\ pc = "para_detect"
    /\ qi < Len(paras)
    /\ \E res \in SearchResults(para_index, enc, para_embeddings.vectors[qi + 1],
                                cfg.para_top_k + SearchExtra) :
        para_pair_hits' = DetectQuery(paras, qi, res, cfg.para_top_k,
                                      cfg.para_threshold, para_pair_hits)
    /\ qi' = qi + 1
    /\ pc' = IF qi + 1 = Len(paras) THEN "para_aggregate" ELSE "para_detect"
    /\ UNCHANGED <<inputVars, sentVars, paras, para_embeddings, para_index,
                   para_stats, para_details, outdir, written, error, citeVars, auxVars>>

AggregateParagraphs ==
    /\ pc = "para_aggregate"
    /\ para_stats' = aggregate_paragraph_pairs(paras, para_pair_hits)
    /\ pc' = "para_details"
    /\ UNCHANGED <<inputVars, sentVars, qi, paras, para_embeddings, para_index,
                   para_pair_hits, para_details, outdir, written, error, citeVars, auxVars>>

BuildParaDetails ==
    /\ pc = "para_details"
    /\ para_details' = build_para_details(paras, para_stats, para_pair_hits,
                                          cfg.max_hits_per_pair)
    /\ pc' = "write"
    /\ UNCHANGED <<inputVars, sentVars, qi, paras, para_embeddings, para_index,
                   para_pair_hits, para_stats, outdir, written, error, citeVars, auxVars>>

(***************************************************************************)
(* Reports.                                                                *)
(***************************************************************************)
SentenceReports == {"pair_summary.csv", "pair_results.json", "evidence_top.json"}
ParagraphReports == {"paragraph_summary.csv", "paragraph_results.json"}

\* truth value of a Python list (or None)
Truthy(list) == list # <<>>

\* the paragraph files written unconditionally
WritesParagraphReportsAlways(pstats, pdetails) == TRUE

\* if para_stats and para_details
WritesParagraphReports(pstats, pdetails) == Truthy(pstats) /\ Truthy(pdetails)

\* str(tuple(detail["pair"])) -> detail["hits"]
EvidenceMap(dets) == [n \in 1..Len(dets) |-> [key |-> dets[n].pair, hits |-> dets[n].hits]]

ReportContents(sts, dets, pstats, pdetails) ==
    [name \in SentenceReports \cup
              (IF WritesParagraphReports(pstats, pdetails) THEN ParagraphReports ELSE {}) |->
        CASE name = "pair_summary.csv" -> [rows |-> sts]
          [] name = "pair_results.json" -> [pairs |-> dets]
          [] name = "evidence_top.json" -> [evidence |-> EvidenceMap(dets)]
          [] name = "paragraph_summary.csv" -> [rows |-> pstats]
          [] OTHER -> [pairs |-> pdetails]]

\* files of dirfiles overwritten or extended by contents
Overwrite(dirfiles, contents) ==
    LET old == IF dirfiles = <<>> THEN {} ELSE DOMAIN dirfiles
    IN  [name \in old \cup DOMAIN contents |->
            IF name \in DOMAIN contents THEN contents[name] ELSE dirfiles[name]]

\* the output directory emptied before the reports are written
write_reports_fresh(out, sts, dets, pstats, pdetails) ==
    [exists |-> TRUE, files |-> ReportContents(sts, dets, pstats, pdetails)]

write_reports(out, sts, dets, pstats, pdetails) ==
    [exists |-> TRUE, files |-> Overwrite(out.files, ReportContents(sts, dets, pstats, pdetails))]

WriteReports ==
    /\ pc = "write"
    /\ outdir' = write_reports(outdir, stats, details, para_stats, para_details)
    /\ written' = DOMAIN ReportContents(stats, details, para_stats, para_details)
    /\ pc' = "done"
    /\ UNCHANGED <<inputVars, sentVars, qi, paraVars, error, citeVars, auxVars>>

Next ==
    \/ LoadCorpus
    \/ BuildEmbeddings
    \/ BuildIndex
    \/ DetectPairsStep
    \/ AggregatePairs
    \/ BuildPairDetails
    \/ LoadParagraphs
    \/ BuildParaEmbeddings
    \/ BuildParaIndex
    \/ DetectParagraphStep
    \/ AggregateParagraphs
    \/ BuildParaDetails
    \/ WriteReports

Spec == Init /\ [][Next]_vars

(***************************************************************************)
(* The same run started from the dashboard with the paragraph check on    *)
(* (the checkbox default), over directories that hold up to MaxPerLevel    *)
(* sentences and up to MaxPerLevel paragraphs.                             *)
(***************************************************************************)
InitBothLevels ==
    /\ dir \in Directories(MaxPerLevel, MaxPerLevel)
    /\ enc \in SimValues
    /\ entry = "dashboard"
    /\ cfg \in {c \in DashboardConfigs : c.enable_paragraph_check}
    /\ call = EntryCall(cfg)
    /\ outdir = EmptyDirectory
    /\ InitRun
    /\ NoCitationCall
    /\ NoDashboard
    /\ NoHighlightCall
    /\ NoParallelCall
    /\ NoCliCall

SpecBothLevels == InitBothLevels /\ [][Next]_vars

(***************************************************************************)
(* A direct call of compute_citation_penalty on arbitrary short texts.     *)
(***************************************************************************)
Similarities == {SimilarityThreshold, 100}

InitCitation ==
    /\ text_a \in Texts
    /\ text_b \in Texts
    /\ similarity \in Similarities
    /\ penalty = 0
    /\ pc = "cite"
    /\ dir = [sents |-> <<>>, paras |-> <<>>]
    /\ enc = SimilarityThreshold
    /\ entry = "library"
    /\ call = "compute_citation_penalty"
    /\ cfg \in ScriptConfigs
    /\ outdir = NoDirectory
    /\ rows = <<>>
    /\ embeddings = NoEmbeddings
    /\ index = <<>>
    /\ qi = 0
    /\ pair_hits = <<>>
    /\ stats = <<>>
    /\ details = <<>>
    /\ paras = <<>>
    /\ para_embeddings = NoEmbeddings
    /\ para_index = <<>>
    /\ para_pair_hits = <<>>
    /\ para_stats = <<>>
    /\ para_details = <<>>
    /\ written = {}
    /\ error = ""
    /\ NoDashboard
    /\ NoHighlightCall
    /\ NoParallelCall
    /\ NoCliCall

ComputePenalty ==
    /\ pc = "cite"
    /\ penalty' = compute_citation_penalty(text_a, text_b, similarity)
    /\ pc' = "cited"
    /\ UNCHANGED <<inputVars, sentVars, qi, paraVars, outdir, written, error,
                   text_a, text_b, similarity, auxVars>>

NextCitation == ComputePenalty

SpecCitation == InitCitation /\ [][NextCitation]_vars

(***************************************************************************)
(* A run under every combination of the three flags that select the        *)
(* embedding builder, over directories of plain spans.                     *)
(***************************************************************************)
Devices == {"None", "cpu", "cuda"}

BuilderConfigs ==
    {Config(IndexTopK, TRUE, par, MaxHitsPerPair, ml, up, dev) :
        par \in BOOLEAN, ml \in BOOLEAN, up \in BOOLEAN, dev \in Devices}

PlainDirectories ==
    {d \in Directories(MaxPerLevel, MaxPerLevel) :
        /\ \A n \in 1..Len(d.sents) : d.sents[n].text = Plain
        /\ \A n \in 1..Len(d.paras) : d.paras[n].text = Plain}

InitBuilder ==
    /\ dir \in PlainDirectories
    /\ enc = SimilarityThreshold
    /\ entry = "cli"
    /\ cfg \in BuilderConfigs
    /\ call = EntryCall(cfg)
    /\ outdir = EmptyDirectory
    /\ InitRun
    /\ NoCitationCall
    /\ NoDashboard
    /\ NoHighlightCall
    /\ NoParallelCall
    /\ NoCliCall

SpecBuilder == InitBuilder /\ [][Next]_vars

(***************************************************************************)
(* A command-line run with --enable-paragraph whose --threshold and        *)
(* --para-threshold are anywhere above the score of a padding entry, over  *)
(* corpora too small to fill the k+5 neighbours of a query.                *)
(***************************************************************************)
Thresholds == {PadScore + 1, SimilarityThreshold}

InitThresholds ==
    /\ dir \in Directories(MaxPerLevel, MaxPerLevel)
    /\ enc \in {SimilarityThreshold - 1, SimilarityThreshold}
    /\ entry = "cli"
    /\ \E t \in Thresholds :
        cfg = [Config(IndexTopK, TRUE, TRUE, MaxHitsPerPair, FALSE, FALSE, "None")
                  EXCEPT !.similarity_threshold = t, !.para_threshold = t]
    /\ call = EntryCall(cfg)
    /\ outdir = EmptyDirectory
    /\ InitRun
    /\ NoCitationCall
    /\ NoDashboard
    /\ NoHighlightCall
    /\ NoParallelCall
    /\ NoCliCall

SpecThresholds == InitThresholds /\ [][Next]_vars

(***************************************************************************)
(* The dashboard.  One action is one script run of app.py, started by one  *)
(* interaction; the pipeline run inside the Start Detection handler takes  *)
(* the steps of Next, and no interaction is served until it has returned.  *)
(***************************************************************************)
MaxUploads == 3

TargetMode == "Target-file detection"
AllMode == "All-file comparison"
Modes == {TargetMode, AllMode}

\* an uploaded file: its name and the sentences of its text
UploadedFile(stem, ext, body) == [name |-> [stem |-> stem, ext |-> ext], body |-> body]

UploadFiles ==
    {UploadedFile("A", "txt", <<Plain>>), UploadedFile("B", "txt", <<Plain>>),
     UploadedFile("C", "md", <<Cited>>), UploadedFile("D", "txt", <<>>),
     UploadedFile("E", "md", <<>>)}

\* what a multi-file uploader can hold
Uploads == {ups \in SUBSET UploadFiles : Cardinality(ups) <= MaxUploads}

\* Path(name).stem
Stem(name) == name.stem

\* the spans the loaders extract from the files of a staging directory, in
\* file order
RECURSIVE SpansOf(_, _)

SpansOf(files, order) ==
    IF order = <<>> THEN <<>>
    ELSE LET here == {f \in files : Stem(f.name) = Head(order)}
             spans == IF here = {} THEN <<>>
                      ELSE LET f == CHOOSE f \in here : TRUE
                           IN  [k \in 1..Len(f.body) |->
                                   [sid |-> Stem(f.name), text |-> f.body[k]]]
         IN  spans \o SpansOf(files, Tail(order))

StagedDirectory(files) ==
    LET spans == SpansOf(files, <<"A", "B", "C", "D", "E">>)
    IN  [sents |-> spans, paras |-> spans]

\* tempfile.mkdtemp(): a directory name that does not exist yet and is not
\* the name of the directory just removed; which fresh name it is does not
\* matter, so the first free one is taken
TempNames == <<"tmp1", "tmp2", "tmp3">>

mkdtemp(existing) ==
    LET free == {n \in 1..Len(TempNames) : TempNames[n] \notin existing}
    IN  TempNames[CHOOSE n \in free : \A m \in free : n <= m]

\* cleanup_temp() forgetting the directory without removing it
cleanup_temp_keep == [temp_dir |-> None, disk |-> disk]

\* cleanup_temp(): the session's temp_dir and the disk afterwards
cleanup_temp ==
    IF temp_dir # None /\ temp_dir[1] \in DOMAIN disk
    THEN [temp_dir |-> None,
          disk |-> [d \in DOMAIN disk \ {temp_dir[1]} |-> disk[d]]]
    ELSE [temp_dir |-> temp_dir, disk |-> disk]

\* the files save_uploaded_files / save_all_files write into the new directory
save_uploaded_files(target, reference_files) == {target} \cup reference_files
save_all_files(uploaded_files) == uploaded_files

\* the sidebar settings handed to run_detection
SessionConfigs == {c \in DashboardConfigs : c.enable_citation_check}

\* run_detection's return value
RunResults(sts, dets, pstats, pdetails) ==
    [sent_stats |-> sts, sent_details |-> dets,
     para_stats |-> pstats, para_details |-> pdetails]

\* target_stem in pair
InPair(x, pair) == \E k \in 1..Len(pair) : pair[k] = x

RECURSIVE KeptIndices(_, _, _)

KeptIndices(sts, target_stem, n) ==
    IF n > Len(sts) THEN <<>>
    ELSE (IF InPair(target_stem, sts[n].pair) THEN <<n>> ELSE <<>>)
            \o KeptIndices(sts, target_stem, n + 1)

\* a filter that looks at the first member of the pair only
filter_results_first_member(res, target_filename) ==
    LET kept == SelectSeq([n \in 1..Len(res.sent_stats) |-> n],
                          LAMBDA n : res.sent_stats[n].pair[1] = Stem(target_filename))
    IN  RunResults([m \in 1..Len(kept) |-> res.sent_stats[kept[m]]],
                   [m \in 1..Len(kept) |-> res.sent_details[kept[m]]], <<>>, <<>>)

filter_results_by_target(res, target_filename) ==
    LET kept == KeptIndices(res.sent_stats, Stem(target_filename), 1)
    IN  RunResults([m \in 1..Len(kept) |-> res.sent_stats[kept[m]]],
                   [m \in 1..Len(kept) |-> res.sent_details[kept[m]]], <<>>, <<>>)

\* the button rendered as soon as a target or any file is there
StartEnabledLoose(m, target, ups) ==
    IF m = TargetMode THEN target # None ELSE ups # {}

\* the Start Detection button is rendered
StartEnabled(m, target, ups) ==
    IF m = TargetMode THEN target # None /\ ups # {}
    ELSE ups # {} /\ Cardinality(ups) >= 2

\* the body of tab1 below the radio button, run on every script run
RenderedMode(m) == IF m = TargetMode THEN "target" ELSE "all"

RenderedTargetFile(m, target, current) ==
    IF m = TargetMode
    THEN IF target # None THEN Some(target[1].name) ELSE current
    ELSE None

\* the first script run of a session
InitDashboard ==
    /\ mode = TargetMode
    /\ target_widget = None
    /\ results = NoResults
    /\ temp_dir = None
    /\ selected_pair = None
    /\ target_file = RenderedTargetFile(mode, target_widget, None)
    /\ detection_mode = RenderedMode(mode)
    /\ disk = <<>>
    /\ pressed = None
    /\ message = ""
    /\ pc = "idle"
    /\ dir = [sents |-> <<>>, paras |-> <<>>]
    /\ enc = SimilarityThreshold
    /\ entry = "dashboard"
    /\ cfg \in SessionConfigs
    /\ call = EntryCall(cfg)
    /\ outdir = NoDirectory
    /\ rows = <<>>
    /\ embeddings = NoEmbeddings
    /\ index = <<>>
    /\ qi = 0
    /\ pair_hits = <<>>
    /\ stats = <<>>
    /\ details = <<>>
    /\ paras = <<>>
    /\ para_embeddings = NoEmbeddings
    /\ para_index = <<>>
    /\ para_pair_hits = <<>>
    /\ para_stats = <<>>
    /\ para_details = <<>>
    /\ written = {}
    /\ error = ""
    /\ NoCitationCall
    /\ NoHighlightCall
    /\ NoParallelCall
    /\ NoCliCall

pipelineVars == <<inputVars, pc, sentVars, qi, paraVars, outdir, written, error>>
callVars == <<citeVars, highlightVars, parallelVars, argv, earlier>>

\* the locals of a pipeline run before it starts and after it has returned
ResetRun ==
    /\ rows' = <<>>
    /\ embeddings' = NoEmbeddings
    /\ index' = <<>>
    /\ qi' = 0
    /\ pair_hits' = <<>>
    /\ stats' = <<>>
    /\ details' = <<>>
    /\ paras' = <<>>
    /\ para_embeddings' = NoEmbeddings
    /\ para_index' = <<>>
    /\ para_pair_hits' = <<>>
    /\ para_stats' = <<>>
    /\ para_details' = <<>>
    /\ written' = {}
    /\ error' = ""

\* the radio button is switched: the uploaders of the other mode are no
\* longer rendered and the ones now rendered start empty
SelectMode ==
    /\ pc = "idle"
    /\ \E m \in Modes \ {mode} :
        /\ mode' = m
        /\ target_widget' = None
        /\ detection_mode' = RenderedMode(m)
        /\ target_file' = RenderedTargetFile(m, None, target_file)
    /\ message' = ""
    /\ UNCHANGED <<results, temp_dir, selected_pair, disk, pressed, pipelineVars,
                   callVars>>

\* a file is put into, replaced in or removed from the target uploader
UploadTarget ==
    /\ pc = "idle"
    /\ mode = TargetMode
    /\ \E t \in {None} \cup {Some(f) : f \in UploadFiles} :
        /\ t # target_widget
        /\ target_widget' = t
        /\ target_file' = RenderedTargetFile(mode, t, target_file)
    /\ detection_mode' = RenderedMode(mode)
    /\ message' = ""
    /\ UNCHANGED <<mode, results, temp_dir, selected_pair, disk, pressed,
                   pipelineVars, callVars>>

\* Start Detection pressed with ups in the reference uploader (target mode)
\* or in the all-files uploader: the files are staged and run_detection
\* constructs the pipeline
StartDetection ==
    /\ pc = "idle"
    /\ \E ups \in Uploads, c \in SessionConfigs :
        /\ StartEnabled(mode, target_widget, ups)
        /\ LET cleaned == cleanup_temp
               d == mkdtemp(DOMAIN disk)
               files == IF mode = TargetMode
                        THEN save_uploaded_files(target_widget[1], ups)
                        ELSE save_all_files(ups)
           IN  /\ temp_dir' = Some(d)
               /\ disk' = [x \in DOMAIN cleaned.disk \cup {d} |->
                              IF x = d THEN files ELSE cleaned.disk[x]]
               /\ dir' = StagedDirectory(files)
        /\ cfg' = c
        /\ call' = EntryCall(c)
        /\ pressed' = Some([results |-> results, temp_dir |-> temp_dir,
                            selected_pair |-> selected_pair,
                            target_file |-> target_file,
                            detection_mode |-> detection_mode,
                            disk |-> disk, outdir |-> outdir,
                            mode |-> mode, target |-> target_widget,
                            uploads |-> ups])
    /\ detection_mode' = RenderedMode(mode)
    /\ target_file' = RenderedTargetFile(mode, target_widget, target_file)
    /\ outdir' = EmptyDirectory
    /\ pc' = "start"
    /\ ResetRun
    /\ message' = ""
    /\ UNCHANGED <<enc, entry, widgetVars, results, selected_pair, callVars>>

\* run_detection has returned: the handler stores the results
DashboardReturn ==
    /\ pc = "done"
    /\ pressed # None
    /\ LET res == RunResults(stats, details, para_stats, para_details)
           shown == IF mode = TargetMode
                    THEN filter_results_by_target(res, target_widget[1].name)
                    ELSE res
       IN  /\ results' = Some(shown)
           /\ selected_pair' = IF Truthy(shown.sent_stats) THEN Some(0)
                               ELSE selected_pair
    /\ message' = "success"
    /\ pressed' = None
    /\ pc' = "idle"
    /\ ResetRun
    /\ UNCHANGED <<inputVars, outdir, widgetVars, temp_dir, target_file,
                   detection_mode, disk, callVars>>

\* run_detection has raised: except Exception shows the error
DashboardCatch ==
    /\ pc = "failed"
    /\ pressed # None
    /\ message' = "error"
    /\ pressed' = None
    /\ pc' = "idle"
    /\ ResetRun
    /\ UNCHANGED <<inputVars, outdir, widgetVars, sessionVars, disk, callVars>>

\* Clear data pressed: the handler, then the script run st.rerun() starts
ClearData ==
    /\ pc = "idle"
    /\ LET cleaned == cleanup_temp
       IN  /\ temp_dir' = cleaned.temp_dir
           /\ disk' = cleaned.disk
           /\ outdir' = IF cleaned.disk = disk THEN outdir ELSE NoDirectory
    /\ results' = None
    /\ selected_pair' = None
    /\ target_file' = RenderedTargetFile(mode, target_widget, None)
    /\ detection_mode' = RenderedMode(mode)
    /\ message' = ""
    /\ UNCHANGED <<inputVars, pc, sentVars, qi, paraVars, written, error,
                   widgetVars, pressed, callVars>>

NextDashboard ==
    \/ Next
    \/ SelectMode
    \/ UploadTarget
    \/ StartDetection
    \/ DashboardReturn
    \/ DashboardCatch
    \/ ClearData

SpecDashboard == InitDashboard /\ [][NextDashboard]_vars

(***************************************************************************)
(* The comparison tab, a function of the session state.                    *)
(***************************************************************************)
\* if st.session_state.results and st.session_state.results['sent_stats']
ResultsShown == results # None /\ Truthy(results[1].sent_stats)

TargetOriented == detection_mode = "target" /\ target_file # None

\* the two names of one entry of the pair selector
SelectorEntry(stat) ==
    IF TargetOriented
    THEN LET target_stem == Stem(target_file[1])
         IN  [first |-> target_stem,
              second |-> IF stat.pair[1] = target_stem THEN stat.pair[2]
                         ELSE stat.pair[1]]
    ELSE [first |-> stat.pair[1], second |-> stat.pair[2]]

TargetId(detail) ==
    IF TargetOriented THEN Stem(target_file[1]) ELSE detail.pair[1]

normalize_pair(pair, target_id) ==
    IF pair[1] = target_id THEN <<pair[1], pair[2]>> ELSE <<pair[2], pair[1]>>

\* the names over the left ("Target") and right ("Reference") panes
display_comparison_view(detail, target_id) ==
    LET sides == normalize_pair(detail.pair, target_id)
    IN  [left |-> sides[1], right |-> sides[2]]

(***************************************************************************)
(* Direct calls of single functions.  No pipeline is running.              *)
(***************************************************************************)
NoPipelineRun ==
    /\ dir = [sents |-> <<>>, paras |-> <<>>]
    /\ enc = SimilarityThreshold
    /\ entry = "library"
    /\ outdir = NoDirectory
    /\ rows = <<>>
    /\ embeddings = NoEmbeddings
    /\ index = <<>>
    /\ qi = 0
    /\ pair_hits = <<>>
    /\ stats = <<>>
    /\ details = <<>>
    /\ paras = <<>>
    /\ para_embeddings = NoEmbeddings
    /\ para_index = <<>>
    /\ para_pair_hits = <<>>
    /\ para_stats = <<>>
    /\ para_details = <<>>
    /\ written = {}
    /\ error = ""

(***************************************************************************)
(* Two command-line invocations writing into the same --output-dir: the    *)
(* second starts when the first has exited, over whatever the submissions  *)
(* directory then holds and with or without --enable-paragraph.            *)
(***************************************************************************)
RunConfigs ==
    {Config(IndexTopK, TRUE, par, MaxHitsPerPair, FALSE, FALSE, "None") : par \in BOOLEAN}

\* submissions directories of the files A and B, every span the same text
RunDirectories ==
    {d \in Directories(MaxPerLevel, MaxPerLevel) :
        /\ \A n \in 1..Len(d.sents) : d.sents[n].sid \in {"A", "B"} /\ d.sents[n].text = Plain
        /\ \A n \in 1..Len(d.paras) : d.paras[n].sid \in {"A", "B"} /\ d.paras[n].text = Plain}

InitRuns ==
    /\ dir \in RunDirectories
    /\ enc = SimilarityThreshold
    /\ entry = "cli"
    /\ cfg \in RunConfigs
    /\ call = EntryCall(cfg)
    /\ outdir \in {NoDirectory, EmptyDirectory}
    /\ InitRun
    /\ NoCitationCall
    /\ NoDashboard
    /\ NoHighlightCall
    /\ NoParallelCall
    /\ NoCliCall

\* main() is started again with the same --output-dir
RunAgain ==
    /\ pc = "done"
    /\ earlier = None
    /\ earlier' = Some(outdir)
    /\ \E d \in RunDirectories, c \in RunConfigs :
        /\ dir' = d
        /\ cfg' = c
        /\ call' = EntryCall(c)
    /\ pc' = "start"
    /\ ResetRun
    /\ UNCHANGED <<enc, entry, outdir, dashVars, citeVars, highlightVars, parallelVars, argv>>

NextRuns ==
    \/ Next
    \/ RunAgain

SpecRuns == InitRuns /\ [][NextRuns]_vars

(***************************************************************************)
(* get_highlight_class(sim, penalty): sim in thousandths, penalty in       *)
(* tenths.                                                                 *)
(***************************************************************************)
CitationBound == 5
HighBound == 900
MediumBound == 800

HighlightSims == 0..(100 * PenaltyNone)
HighlightPenalties == 0..PenaltyNone

\* the bound of the "high" class taken as exclusive
get_highlight_class_exclusive(sim, pen) ==
    IF pen < CitationBound THEN "highlight-citation"
    ELSE IF sim > HighBound THEN "highlight-high"
    ELSE IF sim >= MediumBound THEN "highlight-medium"
    ELSE "highlight-low"

get_highlight_class(sim, pen) ==
    IF pen < CitationBound THEN "highlight-citation"
    ELSE IF sim >= HighBound THEN "highlight-high"
    ELSE IF sim >= MediumBound THEN "highlight-medium"
    ELSE "highlight-low"

InitHighlight ==
    /\ hl_sim \in HighlightSims
    /\ hl_penalty \in HighlightPenalties
    /\ css_class = ""
    /\ pc = "highlight"
    /\ call = "get_highlight_class"
    /\ cfg \in ScriptConfigs
    /\ NoPipelineRun
    /\ NoCitationCall
    /\ NoDashboard
    /\ NoParallelCall
    /\ NoCliCall

GetHighlightClass ==
    /\ pc = "highlight"
    /\ css_class' = get_highlight_class(hl_sim, hl_penalty)
    /\ pc' = "highlighted"
    /\ UNCHANGED <<inputVars, sentVars, qi, paraVars, outdir, written, error,
                   citeVars, dashVars, earlier, hl_sim, hl_penalty, parallelVars, argv>>

NextHighlight == GetHighlightClass

SpecHighlight == InitHighlight /\ [][NextHighlight]_vars

(***************************************************************************)
(* build_embeddings_parallel on the CPU path.  The encoder gives each text *)
(* its own row; a row is written as the text it encodes.  Each chunk is    *)
(* encoded by one worker thread and the threads finish in any order.       *)
(***************************************************************************)
\* model.encode(chunk): one row per text, in the order of the chunk
encode_chunk(chunk) == [n \in 1..Len(chunk) |-> chunk[n]]

\* build_embeddings(texts): the single-threaded path
build_embeddings(txts) == encode_chunk(txts)

ChunkSize(txts, workers) == Len(txts) \div workers

\* texts[start:end] for the i-th of the workers, i counted from zero
ChunkBounds(txts, workers, i) ==
    LET start == i * ChunkSize(txts, workers)
    IN  [start |-> start,
         end |-> IF i < workers - 1 THEN start + ChunkSize(txts, workers)
                 ELSE Len(txts)]

Slice(q, start, end) == [n \in 1..(end - start) |-> q[start + n]]

SplitTexts(txts, workers) ==
    [w \in 1..workers |->
        Slice(txts, ChunkBounds(txts, workers, w - 1).start,
                    ChunkBounds(txts, workers, w - 1).end)]

RECURSIVE Concat(_)

\* np.vstack
Concat(arrays) ==
    IF arrays = <<>> THEN <<>> ELSE Head(arrays) \o Concat(Tail(arrays))

\* the results in the order in which the workers finished
executor_map_as_completed(done) == [n \in 1..Len(done) |-> done[n].rows]

\* list(executor.map(encode_chunk, chunks)): the results in the order of the
\* chunks, whatever the order of completion
executor_map(done) ==
    [w \in 1..Len(done) |->
        LET n == CHOOSE n \in 1..Len(done) : done[n].chunk = w
        IN  done[n].rows]

InitParallel ==
    /\ texts \in SeqsUpTo(CorpusTexts, MaxTexts)
    /\ num_workers \in 1..MaxWorkers
    /\ chunks = <<>>
    /\ chunk_results = <<>>
    /\ encoded = <<>>
    /\ pc = "parallel"
    /\ call = "build_embeddings_parallel"
    /\ cfg \in ScriptConfigs
    /\ NoPipelineRun
    /\ NoCitationCall
    /\ NoDashboard
    /\ NoHighlightCall
    /\ NoCliCall

\* chunk_size == 0: the call falls back to build_embeddings
EncodeSerially ==
    /\ pc = "parallel"
    /\ ChunkSize(texts, num_workers) = 0
    /\ encoded' = build_embeddings(texts)
    /\ pc' = "encoded"
    /\ UNCHANGED <<inputVars, sentVars, qi, paraVars, outdir, written, error,
                   citeVars, dashVars, earlier, highlightVars, texts, num_workers, chunks,
                   chunk_results, argv>>

\* the chunks are cut and handed to the executor
SubmitChunks ==
    /\ pc = "parallel"
    /\ ChunkSize(texts, num_workers) # 0
    /\ chunks' = SplitTexts(texts, num_workers)
    /\ pc' = "workers"
    /\ UNCHANGED <<inputVars, sentVars, qi, paraVars, outdir, written, error,
                   citeVars, dashVars, earlier, highlightVars, texts, num_workers,
                   chunk_results, encoded, argv>>

\* one worker thread finishes encode_chunk on its chunk
WorkerFinishes ==
    /\ pc = "workers"
    /\ \E w \in 1..Len(chunks) :
        /\ \A n \in 1..Len(chunk_results) : chunk_results[n].chunk # w
        /\ chunk_results' = Append(chunk_results,
                                   [chunk |-> w, rows |-> encode_chunk(chunks[w])])
    /\ UNCHANGED <<inputVars, pc, sentVars, qi, paraVars, outdir, written, error,
                   citeVars, dashVars, earlier, highlightVars, texts, num_workers, chunks,
                   encoded, argv>>

\* the executor has been drained and shut down: vstack and return
StackResults ==
    /\ pc = "workers"
    /\ Len(chunk_results) = Len(chunks)
    /\ encoded' = Concat(executor_map(chunk_results))
    /\ pc' = "encoded"
    /\ UNCHANGED <<inputVars, sentVars, qi, paraVars, outdir, written, error,
                   citeVars, dashVars, earlier, highlightVars, texts, num_workers, chunks,
                   chunk_results, argv>>

NextParallel ==
    \/ EncodeSerially
    \/ SubmitChunks
    \/ WorkerFinishes
    \/ StackResults

SpecParallel == InitParallel /\ [][NextParallel]_vars

(***************************************************************************)
(* cli.py: the argument parser and the configuration main() builds.  An    *)
(* argument list is a sequence of options, each with the value that        *)
(* follows it (TRUE for a flag).                                           *)
(***************************************************************************)
NumWorkers == 2
CliWorkers == 2
CliTopK == 5
CliThreshold == 82
CliMaxHits == 50
CliParaThreshold == 75

\* PipelineConfig(): the dataclass defaults
PipelineConfig ==
    [submissions_dir |-> "./paraphrase_outputs", model_name |-> "all-MiniLM-L6-v2",
     device |-> "None", use_parallel |-> FALSE, num_workers |-> NumWorkers,
     index_top_k |-> IndexTopK, similarity_threshold |-> SimilarityThreshold,
     max_hits_per_pair |-> MaxHitsPerPair, output_dir |-> ".",
     enable_paragraph_check |-> TRUE, enable_citation_check |-> TRUE,
     enable_multilingual |-> FALSE,
     para_top_k |-> ParaTopK, para_threshold |-> ParaThreshold]

\* build_parser(): the namespace of an empty argument list
ParserDefaults ==
    [submissions_dir |-> "./paraphrase_outputs", model_name |-> "all-MiniLM-L6-v2",
     device |-> "None", parallel |-> FALSE, workers |-> CliWorkers,
     top_k |-> CliTopK, threshold |-> CliThreshold, max_hits |-> CliMaxHits,
     output_dir |-> ".", enable_paragraph |-> FALSE, enable_citation |-> TRUE,
     enable_multilingual |-> FALSE, para_threshold |-> CliParaThreshold]

CliTokens ==
    {[opt |-> o, val |-> TRUE] :
        o \in {"--parallel", "--enable-paragraph", "--enable-citation",
               "--enable-multilingual"}}
    \cup {[opt |-> "--device", val |-> d] : d \in {"cpu", "cuda"}}
    \cup {[opt |-> "--submissions-dir", val |-> "submissions"],
          [opt |-> "--model-name", val |-> "other-model"],
          [opt |-> "--output-dir", val |-> "reports"],
          [opt |-> "--workers", val |-> MaxWorkers],
          [opt |-> "--top-k", val |-> MaxK],
          [opt |-> "--max-hits", val |-> HitNorm + 1],
          [opt |-> "--threshold", val |-> ParaThreshold],
          [opt |-> "--para-threshold", val |-> SimilarityThreshold]}

\* one option taken from the argument list
ParseOption(ns, tok) ==
    CASE tok.opt = "--submissions-dir" -> [ns EXCEPT !.submissions_dir = tok.val]
      [] tok.opt = "--model-name" -> [ns EXCEPT !.model_name = tok.val]
      [] tok.opt = "--device" -> [ns EXCEPT !.device = tok.val]
      [] tok.opt = "--parallel" -> [ns EXCEPT !.parallel = TRUE]
      [] tok.opt = "--workers" -> [ns EXCEPT !.workers = tok.val]
      [] tok.opt = "--top-k" -> [ns EXCEPT !.top_k = tok.val]
      [] tok.opt = "--threshold" -> [ns EXCEPT !.threshold = tok.val]
      [] tok.opt = "--max-hits" -> [ns EXCEPT !.max_hits = tok.val]
      [] tok.opt = "--output-dir" -> [ns EXCEPT !.output_dir = tok.val]
      [] tok.opt = "--enable-paragraph" -> [ns EXCEPT !.enable_paragraph = TRUE]
      [] tok.opt = "--enable-citation" -> [ns EXCEPT !.enable_citation = TRUE]
      [] tok.opt = "--enable-multilingual" -> [ns EXCEPT !.enable_multilingual = TRUE]
      [] OTHER -> [ns EXCEPT !.para_threshold = tok.val]

RECURSIVE ParseFrom(_, _)

ParseFrom(ns, args) ==
    IF args = <<>> THEN ns ELSE ParseFrom(ParseOption(ns, Head(args)), Tail(args))

parse_args(args) == ParseFrom(ParserDefaults, args)

\* main() leaving enable_paragraph_check to the dataclass default unless the
\* flag is passed
cli_config_paragraph_from_dataclass(args) ==
    LET ns == parse_args(args)
    IN  [PipelineConfig EXCEPT
            !.submissions_dir = ns.submissions_dir, !.model_name = ns.model_name,
            !.device = ns.device, !.use_parallel = ns.parallel,
            !.num_workers = ns.workers, !.index_top_k = ns.top_k,
            !.similarity_threshold = ns.threshold, !.max_hits_per_pair = ns.max_hits,
            !.output_dir = ns.output_dir,
            !.enable_paragraph_check = (ns.enable_paragraph \/ @),
            !.enable_citation_check = ns.enable_citation,
            !.enable_multilingual = ns.enable_multilingual,
            !.para_threshold = ns.para_threshold]

\* main(): config = PipelineConfig(submissions_dir=args.submissions_dir, ...)
cli_config(args) ==
    LET ns == parse_args(args)
    IN  [PipelineConfig EXCEPT
            !.submissions_dir = ns.submissions_dir, !.model_name = ns.model_name,
            !.device = ns.device, !.use_parallel = ns.parallel,
            !.num_workers = ns.workers, !.index_top_k = ns.top_k,
            !.similarity_threshold = ns.threshold, !.max_hits_per_pair = ns.max_hits,
            !.output_dir = ns.output_dir,
            !.enable_paragraph_check = ns.enable_paragraph,
            !.enable_citation_check = ns.enable_citation,
            !.enable_multilingual = ns.enable_multilingual,
            !.para_threshold = ns.para_threshold]

InitCli ==
    /\ argv \in SeqsUpTo(CliTokens, MaxArgs)
    /\ earlier = None
    /\ cfg = None
    /\ pc = "main"
    /\ call = "main"
    /\ NoPipelineRun
    /\ NoCitationCall
    /\ NoDashboard
    /\ NoHighlightCall
    /\ NoParallelCall

\* main() up to the construction of the pipeline
BuildConfig ==
    /\ pc = "main"
    /\ cfg' = cli_config(argv)
    /\ pc' = "configured"
    /\ UNCHANGED <<dir, enc, entry, call, sentVars, qi, paraVars, outdir, written,
                   error, citeVars, auxVars>>

NextCli == BuildConfig

SpecCli == InitCli /\ [][NextCli]_vars

(***************************************************************************)
(* Properties.                                                             *)
(***************************************************************************)

\* C1: every hit between spans of two different submissions is stored under
\* the key (min(A,B), max(A,B)) whichever side queried, no unordered pair has
\* two keys, and the aggregation emits at most one summary per unordered pair
\* (sentence and paragraph level).
PairKeyCanonical ==
    LET canonical(recs, ph) ==
            /\ \A n \in 1..Len(ph) : \A m \in 1..Len(ph[n].hits) :
                LET a == Row(recs, ph[n].hits[m].i).sid
                    b == Row(recs, ph[n].hits[m].j).sid
                IN  a # b => /\ {ph[n].pair[1], ph[n].pair[2]} = {a, b}
                             /\ SidOrd[ph[n].pair[1]] < SidOrd[ph[n].pair[2]]
            /\ \A n, m \in 1..Len(ph) :
                n # m => {ph[n].pair[1], ph[n].pair[2]} # {ph[m].pair[1], ph[m].pair[2]}
        onePerPair(sts) ==
            \A n, m \in 1..Len(sts) :
                n # m => {sts[n].pair[1], sts[n].pair[2]} # {sts[m].pair[1], sts[m].pair[2]}
    IN  /\ canonical(rows, pair_hits)
        /\ canonical(paras, para_pair_hits)
        /\ onePerPair(stats)
        /\ onePerPair(para_stats)

\* a finished run in which one key holds hits queried from both of its sides
PairKeyCanonicalWitness ==
    /\ pc = "done"
    /\ \E n \in 1..Len(pair_hits) :
        /\ \E m \in 1..Len(pair_hits[n].hits) :
              Row(rows, pair_hits[n].hits[m].i).sid = pair_hits[n].pair[1]
        /\ \E m \in 1..Len(pair_hits[n].hits) :
              Row(rows, pair_hits[n].hits[m].i).sid = pair_hits[n].pair[2]
        /\ Cardinality({x \in 1..Len(stats) : stats[x].pair = pair_hits[n].pair}) = 1

\* C2: every recorded hit (i, j, sim) has i # j and different submission ids;
\* when no two records of different submissions reach the threshold, the
\* match map is empty.
SameSubmissionExcluded ==
    /\ \A n \in 1..Len(pair_hits) : \A m \in 1..Len(pair_hits[n].hits) :
        /\ pair_hits[n].hits[m].i # pair_hits[n].hits[m].j
        /\ Row(rows, pair_hits[n].hits[m].i).sid # Row(rows, pair_hits[n].hits[m].j).sid
    /\ (\A i, j \in 0..(Len(rows) - 1) :
            Row(rows, i).sid # Row(rows, j).sid
                => InnerProduct(enc, Row(rows, i).text, Row(rows, j).text)
                     < cfg.similarity_threshold)
        => pair_hits = <<>>

\* detection finished with an empty map over a corpus whose only neighbours
\* at or above the threshold are two records of one submission
SameSubmissionExcludedWitness ==
    /\ pc = "aggregate"
    /\ pair_hits = <<>>
    /\ \E i, j \in 0..(Len(rows) - 1) :
        /\ i # j
        /\ Row(rows, i).sid = Row(rows, j).sid
        /\ InnerProduct(enc, Row(rows, i).text, Row(rows, j).text) >= cfg.similarity_threshold
    /\ \E i, j \in 0..(Len(rows) - 1) : Row(rows, i).sid # Row(rows, j).sid

\* C3: the threshold is inclusive: every recorded hit has sim >= threshold,
\* and once detect_pairs has finished, a record j of another submission whose
\* similarity to record i equals the threshold exactly is recorded as the hit
\* (i, j, threshold) of query i, unless that query already accepted k hits
\* (j is among the k+5 neighbours returned).
ThresholdInclusive ==
    LET thr == cfg.similarity_threshold
        allHits == UNION {{pair_hits[n].hits[m] : m \in 1..Len(pair_hits[n].hits)} :
                            n \in 1..Len(pair_hits)}
    IN  /\ \A h \in allHits : h.sim >= thr
        /\ (pc = "aggregate" /\ Len(rows) <= cfg.index_top_k + SearchExtra) =>
            \A i, j \in 0..(Len(rows) - 1) :
                (/\ Row(rows, i).sid # Row(rows, j).sid
                 /\ InnerProduct(enc, Row(rows, i).text, Row(rows, j).text) = thr)
                => \/ [i |-> i, j |-> j, sim |-> thr] \in allHits
                   \/ Cardinality({h \in allHits : h.i = i}) >= cfg.index_top_k

\* detection finished with a recorded hit whose similarity is the threshold
ThresholdInclusiveWitness ==
    /\ pc = "aggregate"
    /\ \E n \in 1..Len(pair_hits) : \E m \in 1..Len(pair_hits[n].hits) :
        pair_hits[n].hits[m].sim = cfg.similarity_threshold

\* C4: compute_citation_penalty returns 0.3 (3 tenths) when both texts are
\* likely citations, 0.6 when exactly one is, 1.0 when neither is, whatever
\* the similarity argument, and the same with the two texts swapped.
CitationPenaltyTable ==
    pc = "cited" =>
        LET ca == has_citation_marker(text_a) \/ has_quotation_mark(text_a)
            cb == has_citation_marker(text_b) \/ has_quotation_mark(text_b)
        IN  /\ (ca /\ cb) => penalty = 3
            /\ ((ca /\ ~cb) \/ (~ca /\ cb)) => penalty = 6
            /\ (~ca /\ ~cb) => penalty = 10
            /\ \A sim \in 0..100 : compute_citation_penalty(text_a, text_b, sim) = penalty
            /\ compute_citation_penalty(text_b, text_a, similarity) = penalty

\* a call whose second text alone carries a citation
CitationPenaltyTableWitness ==
    /\ pc = "cited"
    /\ penalty = 6
    /\ ~is_likely_citation(text_a)
    /\ is_likely_citation(text_b)

\* C5: for every summary, coverage_a is the number of distinct sent_id values
\* of submission A involved in any hit of the pair, on either side of the
\* hit, divided by A's sentence count, and coverage_b likewise for B.
CoverageCountsBothSides ==
    \A n \in 1..Len(stats) :
        LET hits == DictGet(pair_hits, stats[n].pair)
            involved(sid) ==
                {Row(rows, hits[m].i).sent_id :
                    m \in {x \in 1..Len(hits) : Row(rows, hits[x].i).sid = sid}}
                \cup {Row(rows, hits[m].j).sent_id :
                    m \in {x \in 1..Len(hits) : Row(rows, hits[x].j).sid = sid}}
            total(sid) == Cardinality({x \in 1..Len(rows) : rows[x].sid = sid})
            sid_a == stats[n].pair[1]
            sid_b == stats[n].pair[2]
        IN  /\ stats[n].coverage_a.num * total(sid_a)
                 = Cardinality(involved(sid_a)) * stats[n].coverage_a.den
            /\ stats[n].coverage_b.num * total(sid_b)
                 = Cardinality(involved(sid_b)) * stats[n].coverage_b.den

SummariesSortedOnePerKey ==
    pc \in {"details", "para_load", "para_embed", "para_index", "para_detect",
            "para_aggregate", "para_details", "write", "done"} =>
        /\ \A n \in 1..Len(pair_hits) :
            Cardinality({m \in 1..Len(stats) : stats[m].pair = pair_hits[n].pair})
                = IF pair_hits[n].hits # <<>> THEN 1 ELSE 0
        /\ \A m \in 1..Len(stats) : \E n \in 1..Len(pair_hits) :
            stats[m].pair = pair_hits[n].pair /\ stats[m].count = Len(pair_hits[n].hits)
        /\ \A m \in 1..(Len(stats) - 1) : FracLeq(stats[m + 1].score, stats[m].score)

\* a finished run whose best summary is not the first key of the dictionary
SummariesSortedWitness ==
    /\ pc = "done"
    /\ Len(stats) >= 2
    /\ stats[1].pair # pair_hits[1].pair
    /\ FracLess(stats[2].score, stats[1].score)

\* C8: when load_corpus returns no records the run fails with the "no valid
\* text found" error before any embedding, indexing or detection step, and
\* no report file is written, whichever entry point started it.
EmptyCorpusFails ==
    (load_corpus(dir.sents) = <<>> /\ pc # "start") =>
        /\ pc = "failed"
        /\ error = "no valid text found"
        /\ embeddings = NoEmbeddings
        /\ index = <<>>
        /\ pair_hits = <<>>
        /\ stats = <<>>
        /\ details = <<>>
        /\ paras = <<>>
        /\ para_embeddings = NoEmbeddings
        /\ para_stats = <<>>
        /\ written = {}
        /\ DOMAIN outdir.files = {}

\* a failed run_with_paragraphs over a directory that does hold paragraphs
EmptyCorpusFailsWitness ==
    /\ pc = "failed"
    /\ error = "no valid text found"
    /\ call = "run_with_paragraphs"
    /\ dir.paras # <<>>
    /\ DOMAIN outdir.files = {}

\* C9: run_with_paragraphs over a non-empty sentence corpus never fails; when
\* the paragraph check is disabled or load_paragraphs returns no records it
\* returns the stats and details of run() with two empty paragraph lists, and
\* the write_reports that follows writes no paragraph report.
ParagraphsNeverFatal ==
    (call = "run_with_paragraphs" /\ load_corpus(dir.sents) # <<>>) =>
        /\ pc # "failed"
        /\ error = ""
        /\ (/\ pc \in {"write", "done"}
            /\ (~cfg.enable_paragraph_check \/ load_paragraphs(dir.paras) = <<>>)) =>
                /\ para_stats = <<>>
                /\ para_details = <<>>
                /\ stats = aggregate_pairs(rows, pair_hits, cfg.enable_citation_check)
                /\ details = build_pair_details(rows, stats, pair_hits, cfg.max_hits_per_pair)
                /\ pc = "done" => written \cap ParagraphReports = {}

\* a finished run with the paragraph check on, sentence pairs found and no
\* paragraph records
ParagraphsNeverFatalWitness ==
    /\ pc = "done"
    /\ call = "run_with_paragraphs"
    /\ cfg.enable_paragraph_check
    /\ load_paragraphs(dir.paras) = <<>>
    /\ stats # <<>>
    /\ written = SentenceReports

\* C10: after write_reports the output directory exists and holds the three
\* sentence reports just written; the two paragraph reports are written if
\* and only if para_stats and para_details are both non-empty, and always
\* both or neither.
ReportsWritten ==
    pc = "done" =>
        /\ outdir.exists
        /\ SentenceReports \subseteq written
        /\ written \subseteq DOMAIN outdir.files
        /\ outdir.files["pair_summary.csv"] = [rows |-> stats]
        /\ outdir.files["pair_results.json"] = [pairs |-> details]
        /\ (ParagraphReports \subseteq written) <=> (para_stats # <<>> /\ para_details # <<>>)
        /\ (ParagraphReports \subseteq written) \/ (ParagraphReports \cap written = {})
        /\ written \subseteq SentenceReports \cup ParagraphReports

\* a finished command-line run that wrote all five reports
ReportsWrittenWitness ==
    /\ pc = "done"
    /\ entry = "cli"
    /\ written = SentenceReports \cup ParagraphReports
    /\ para_stats # <<>>

\* C11: for every combination of enable_multilingual, use_parallel and device
\* the sentence pass uses the multilingual builder when enable_multilingual is
\* set, else the parallel builder exactly when use_parallel is set and device
\* is absent or cpu, else the plain builder; the parallel builder never goes
\* with device cuda, and the paragraph pass uses the builder of the sentence
\* pass.
BuilderPriority ==
    LET expected ==
            CASE cfg.enable_multilingual -> "build_multilingual_embeddings"
              [] ~cfg.enable_multilingual /\ cfg.use_parallel /\ cfg.device \in {"None", "cpu"}
                    -> "build_embeddings_parallel"
              [] OTHER -> "build_embeddings"
    IN  /\ embeddings.builder # "none" => embeddings.builder = expected
        /\ embeddings.builder = "build_embeddings_parallel" => cfg.device # "cuda"
        /\ para_embeddings.builder # "none" => para_embeddings.builder = embeddings.builder

\* a finished run with both the multilingual and the parallel flag set on a
\* CPU whose two passes used the multilingual builder
BuilderPriorityWitness ==
    /\ pc = "done"
    /\ cfg.enable_multilingual /\ cfg.use_parallel /\ cfg.device = "cpu"
    /\ embeddings.builder = "build_multilingual_embeddings"
    /\ para_embeddings.builder = "build_multilingual_embeddings"

\* C12: when a target-mode run returns, the stored results hold exactly the
\* summaries whose pair contains the base name of the target file, in their
\* original order, each with the detail that stood at the same position as
\* the summary in the unfiltered results.
TargetFilterExact ==
    [][(pc = "done" /\ pc' = "idle" /\ mode = TargetMode) =>
        LET stem == Stem(target_widget[1].name)
            K == {n \in 1..Len(stats) : stem \in {stats[n].pair[1], stats[n].pair[2]}}
            nth(m) == CHOOSE n \in K : Cardinality({x \in K : x <= n}) = m
            f == results'[1]
        IN  /\ Len(f.sent_stats) = Cardinality(K)
            /\ Len(f.sent_details) = Cardinality(K)
            /\ \A m \in 1..Cardinality(K) :
                /\ f.sent_stats[m] = stats[nth(m)]
                /\ f.sent_details[m] = details[nth(m)]
                /\ f.sent_details[m].pair = f.sent_stats[m].pair
    ]_vars

\* a target-mode run over three files with text has returned and two of the
\* three pairs are kept
TargetFilterWitness ==
    /\ pc = "idle"
    /\ message = "success"
    /\ mode = TargetMode
    /\ results # None
    /\ Len(results[1].sent_stats) = 2
    /\ Len(results[1].sent_details) = 2
    /\ Cardinality({f \in disk[temp_dir[1]] : f.body # <<>>}) = 3

\* C13: when a run started by Start Detection raises, the error is shown and
\* results, the staging directory path, the directories on disk and their
\* contents, the selected pair, the target file name and the detection mode
\* are what they were when the button was pressed.
FailedRunLeavesSession ==
    [][(pc = "failed" /\ pc' = "idle") =>
        /\ message' = "error"
        /\ results' = pressed[1].results
        /\ temp_dir' = pressed[1].temp_dir
        /\ disk' = pressed[1].disk
        /\ outdir' = pressed[1].outdir
        /\ selected_pair' = pressed[1].selected_pair
        /\ target_file' = pressed[1].target_file
        /\ detection_mode' = pressed[1].detection_mode
    ]_vars

\* C14: at most one staging directory exists, it is the one temp_dir names,
\* and while a run is under way the directory the session named when the
\* button was pressed is gone.
OneStagingDirectory ==
    /\ Cardinality(DOMAIN disk) <= 1
    /\ \A d \in DOMAIN disk : temp_dir = Some(d)
    /\ (pressed # None /\ pressed[1].temp_dir # None) =>
            pressed[1].temp_dir[1] \notin DOMAIN disk

\* a second run is under way: the directory of the first run has been
\* replaced by a new one
OneStagingDirectoryWitness ==
    /\ pressed # None
    /\ pressed[1].temp_dir # None
    /\ pressed[1].disk # <<>>
    /\ temp_dir # None
    /\ temp_dir # pressed[1].temp_dir
    /\ DOMAIN disk = {temp_dir[1]}

\* C15: Clear data leaves results, the staging directory path, the selected
\* pair and the target file name empty and no staging directory on disk.
ClearDataResets ==
    [][ClearData =>
        /\ results' = None
        /\ temp_dir' = None
        /\ selected_pair' = None
        /\ target_file' = None
        /\ disk' = <<>>
    ]_vars

\* C16: whenever results are shown with detection_mode "target" and a target
\* file set, every selector entry names the target first, the left pane of
\* every comparison is the target, and the target is a member of the pair.
TargetShownFirst ==
    (pc = "idle" /\ TargetOriented /\ ResultsShown) =>
        LET target_stem == Stem(target_file[1])
        IN  /\ \A n \in 1..Len(results[1].sent_stats) :
                /\ SelectorEntry(results[1].sent_stats[n]).first = target_stem
                /\ InPair(target_stem, results[1].sent_stats[n].pair)
            /\ temp_dir # None =>
                \A n \in 1..Len(results[1].sent_details) :
                    LET detail == results[1].sent_details[n]
                    IN  /\ display_comparison_view(detail, TargetId(detail)).left = target_stem
                        /\ InPair(target_stem, detail.pair)

\* C17: the pipeline is started, and a staging directory is created, only by
\* a press made with a target and at least one reference file in target mode
\* or with at least two files in all-file mode.
RunNeedsSufficientInput ==
    [][((pc = "idle" /\ pc' = "start") \/ (disk' # disk /\ disk' # <<>>)) =>
        /\ pressed' # None
        /\ IF pressed'[1].mode = TargetMode
           THEN pressed'[1].target # None /\ Cardinality(pressed'[1].uploads) >= 1
           ELSE Cardinality(pressed'[1].uploads) >= 2
    ]_vars

\* runs started with the least input either mode accepts
RunNeedsSufficientInputWitness ==
    /\ pc = "start"
    /\ pressed # None
    /\ \/ pressed[1].mode = AllMode /\ Cardinality(pressed[1].uploads) = 2
       \/ pressed[1].mode = TargetMode /\ Cardinality(pressed[1].uploads) = 1
    /\ temp_dir # None
    /\ temp_dir[1] \in DOMAIN disk

\* C18: get_highlight_class gives the citation class whenever penalty < 0.5
\* whatever sim is, otherwise high for sim >= 0.90, medium for
\* 0.80 <= sim < 0.90 and low for sim < 0.80; of the penalties 0.3, 0.6 and
\* 1.0 only 0.3 gives the citation class.
HighlightClassTable ==
    pc = "highlighted" =>
        /\ hl_penalty * 2 < 10 => css_class = "highlight-citation"
        /\ (hl_penalty * 2 >= 10 /\ hl_sim >= 900) => css_class = "highlight-high"
        /\ (hl_penalty * 2 >= 10 /\ 800 <= hl_sim /\ hl_sim < 900)
                => css_class = "highlight-medium"
        /\ (hl_penalty * 2 >= 10 /\ hl_sim < 800) => css_class = "highlight-low"
        /\ hl_penalty \in {3, 6, 10}
                => (css_class = "highlight-citation" <=> hl_penalty = 3)

\* a match at exactly 0.90 with no citation penalty classified high
HighlightClassTableWitness ==
    /\ pc = "highlighted"
    /\ hl_sim = 900
    /\ hl_penalty = 10
    /\ css_class = "highlight-high"

\* C19: with len(texts) // num_workers >= 1 the chunks are num_workers
\* consecutive slices of texts, all of the quotient's length but the last,
\* which takes the rest; nothing is returned while a worker is still busy;
\* and whatever the order in which the workers finish, the result has one
\* row per text and row r encodes texts[r].
ParallelKeepsOrder ==
    LET size == Len(texts) \div num_workers
        before(w) == (w - 1) * size
    IN  /\ (pc \in {"workers", "encoded"} /\ size >= 1) =>
            /\ Len(chunks) = num_workers
            /\ \A w \in 1..num_workers :
                /\ Len(chunks[w]) = IF w < num_workers THEN size
                                    ELSE Len(texts) - before(w)
                /\ \A n \in 1..Len(chunks[w]) : chunks[w][n] = texts[before(w) + n]
        /\ pc = "workers" => encoded = <<>>
        /\ (pc = "encoded" /\ size >= 1) =>
            /\ Len(chunk_results) = num_workers
            /\ Len(encoded) = Len(texts)
            /\ \A r \in 1..Len(texts) : encoded[r] = encode_chunk(<<texts[r]>>)[1]

\* the last chunk was encoded first, the list has a remainder, the chunks
\* differ, and the call has returned
ParallelKeepsOrderWitness ==
    /\ pc = "encoded"
    /\ num_workers >= 2
    /\ Len(chunk_results) = num_workers
    /\ chunk_results[1].chunk = num_workers
    /\ Len(texts) % num_workers # 0
    /\ chunks[1] # chunks[num_workers]
    /\ \E r \in 1..Len(texts) : texts[r] # texts[1]

\* C20 as stated: the configuration main() builds from the empty argument
\* list equals PipelineConfig() field by field.
CliDefaultsMatchConfig ==
    (pc = "configured" /\ argv = <<>>) => cfg = PipelineConfig

\* C20: the configuration main() builds has, in every field with an option,
\* the value last passed for it and otherwise the PipelineConfig default,
\* except that enable_paragraph_check is off unless --enable-paragraph is
\* passed; enable_citation_check is always on and para_top_k, which has no
\* option, always is the PipelineConfig default.
CliConfigFromArguments ==
    pc = "configured" =>
        LET given(o) == {n \in 1..Len(argv) : argv[n].opt = o}
            last(o) == CHOOSE n \in given(o) : \A m \in given(o) : m <= n
            value(o, default) == IF given(o) = {} THEN default ELSE argv[last(o)].val
        IN  /\ cfg.submissions_dir = value("--submissions-dir", PipelineConfig.submissions_dir)
            /\ cfg.model_name = value("--model-name", PipelineConfig.model_name)
            /\ cfg.device = value("--device", PipelineConfig.device)
            /\ cfg.num_workers = value("--workers", PipelineConfig.num_workers)
            /\ cfg.index_top_k = value("--top-k", PipelineConfig.index_top_k)
            /\ cfg.similarity_threshold
                    = value("--threshold", PipelineConfig.similarity_threshold)
            /\ cfg.max_hits_per_pair = value("--max-hits", PipelineConfig.max_hits_per_pair)
            /\ cfg.output_dir = value("--output-dir", PipelineConfig.output_dir)
            /\ cfg.para_threshold = value("--para-threshold", PipelineConfig.para_threshold)
            /\ cfg.use_parallel = value("--parallel", PipelineConfig.use_parallel)
            /\ cfg.enable_multilingual
                    = value("--enable-multilingual", PipelineConfig.enable_multilingual)
            /\ cfg.enable_paragraph_check = value("--enable-paragraph", FALSE)
            /\ cfg.enable_citation_check = TRUE
            /\ cfg.para_top_k = PipelineConfig.para_top_k

\* the empty argument list gives a configuration with the paragraph check
\* off and every other field at its PipelineConfig default
CliConfigFromArgumentsWitness ==
    /\ pc = "configured"
    /\ argv = <<>>
    /\ cfg = [PipelineConfig EXCEPT !.enable_paragraph_check = FALSE]

BothDirectionsCounted ==
    pc \in {"details", "para_load", "para_embed", "para_index", "para_detect",
            "para_aggregate", "para_details", "write", "done"} =>
        LET thr == cfg.similarity_threshold
            k == cfg.index_top_k
            sim(i, j) == InnerProduct(enc, Row(rows, i).text, Row(rows, j).text)
            qualifying(i) == {j \in 0..(Len(rows) - 1) :
                                /\ j # i
                                /\ Row(rows, i).sid # Row(rows, j).sid
                                /\ sim(i, j) >= thr}
            allHits == UNION {{pair_hits[n].hits[m] : m \in 1..Len(pair_hits[n].hits)} :
                                n \in 1..Len(pair_hits)}
        IN  \A n \in 1..Len(stats) :
                LET hits == DictGet(pair_hits, stats[n].pair)
                    at(i, j) == {m \in 1..Len(hits) : hits[m].i = i /\ hits[m].j = j}
                    directed == {<<hits[m].i, hits[m].j>> : m \in 1..Len(hits)}
                    unordered == {{hits[m].i, hits[m].j} : m \in 1..Len(hits)}
                    mutual == {u \in unordered :
                                  \A x, y \in u : x # y => <<x, y>> \in directed}
                    capped == IF Cardinality(directed) <= 50 THEN Cardinality(directed) ELSE 50
                    st == stats[n]
                IN  /\ \A i, j \in 0..(Len(rows) - 1) :
                        (/\ {Row(rows, i).sid, Row(rows, j).sid}
                                = {st.pair[1], st.pair[2]}
                         /\ Row(rows, i).sid # Row(rows, j).sid
                         /\ sim(i, j) >= thr
                         /\ Cardinality(qualifying(i)) <= k
                         /\ Cardinality(qualifying(j)) <= k
                         /\ Len(rows) <= k + SearchExtra)
                        => /\ \E m \in at(i, j) : hits[m].sim = sim(i, j)
                           /\ \E m \in at(j, i) : hits[m].sim = sim(i, j)
                    /\ \A m \in 1..Len(hits) :
                        at(hits[m].j, hits[m].i) = {}
                            => Cardinality({h \in allHits : h.i = hits[m].j}) = k
                    /\ \A m \in 1..Len(hits) : Cardinality(at(hits[m].i, hits[m].j)) = 1
                    /\ st.count = Cardinality(directed)
                    /\ st.count = Cardinality(unordered) + Cardinality(mutual)
                    /\ FracEq(st.score,
                              Frac(40 * st.mean_sim.num * st.coverage_min.den * 50
                                     + 35 * st.coverage_min.num * st.mean_sim.den * 50
                                     + 15 * st.max_sim.num * st.count * st.coverage_min.den * 50
                                     + 10 * capped * st.mean_sim.den * st.coverage_min.den,
                                   100 * st.mean_sim.den * st.coverage_min.den * 50))

\* a finished run with a summary whose hit list holds one record pair in both
\* directions and another in one direction only, counted as three hits
BothDirectionsCountedWitness ==
    /\ pc = "done"
    /\ \E n \in 1..Len(stats) :
        LET hits == DictGet(pair_hits, stats[n].pair)
            has(i, j) == \E m \in 1..Len(hits) : hits[m].i = i /\ hits[m].j = j
        IN  /\ stats[n].count = 3
            /\ \E m \in 1..Len(hits) : has(hits[m].j, hits[m].i)
            /\ \E m \in 1..Len(hits) : ~has(hits[m].j, hits[m].i)

\* C23: once build_pair_details has returned, details holds one record per
\* summary in the order of the summaries, carrying the summary's figures, and
\* every hit record in it has the raw similarity of its two sentences as sim,
\* citation_penalty = compute_citation_penalty(text_i, text_j, sim) and
\* adjusted_sim = sim * citation_penalty, whether or not the summaries were
\* scored with the citation penalty.
DetailsRecomputePenalty ==
    pc \in {"para_load", "para_embed", "para_index", "para_detect",
            "para_aggregate", "para_details", "write", "done"} =>
        /\ Len(details) = Len(stats)
        /\ \A n \in 1..Len(stats) :
            /\ details[n].pair = stats[n].pair
            /\ details[n].count = stats[n].count
            /\ details[n].score = stats[n].score
            /\ details[n].mean_sim = stats[n].mean_sim
            /\ details[n].max_sim = stats[n].max_sim
            /\ \A m \in 1..Len(details[n].hits) :
                LET h == details[n].hits[m]
                    raw == DictGet(pair_hits, stats[n].pair)[m]
                IN  /\ h.i = raw.i /\ h.j = raw.j /\ h.sim = raw.sim
                    /\ h.text_i = Row(rows, h.i).text
                    /\ h.text_j = Row(rows, h.j).text
                    /\ h.sim = InnerProduct(enc, h.text_i, h.text_j)
                    /\ h.citation_penalty = compute_citation_penalty(h.text_i, h.text_j, h.sim)
                    /\ h.citation_penalty
                         = IF is_likely_citation(h.text_i) /\ is_likely_citation(h.text_j) THEN 3
                           ELSE IF is_likely_citation(h.text_i) \/ is_likely_citation(h.text_j)
                                THEN 6
                           ELSE 10
                    /\ h.adjusted_sim = h.sim * h.citation_penalty

\* a finished run scored without the citation penalty whose detail record
\* lists only penalised hits, each adjusted similarity below the summary's
\* maximum, next to a second detail record
DetailsRecomputePenaltyWitness ==
    /\ pc = "done"
    /\ ~cfg.enable_citation_check
    /\ Len(details) >= 2
    /\ \E n \in 1..Len(details) :
        /\ details[n].hits # <<>>
        /\ \A m \in 1..Len(details[n].hits) :
            /\ details[n].hits[m].citation_penalty < 10
            /\ FracLess(Frac(details[n].hits[m].adjusted_sim, 1000), details[n].max_sim)

PaddingNeverRecorded ==
    LET real(recs, ph) ==
            \A n \in 1..Len(ph) : \A m \in 1..Len(ph[n].hits) :
                LET h == ph[n].hits[m]
                IN  /\ 0 <= h.i /\ h.i < Len(recs)
                    /\ 0 <= h.j /\ h.j < Len(recs)
                    /\ h.sim # PadScore
                    /\ h.sim = InnerProduct(enc, recs[h.i + 1].text, recs[h.j + 1].text)
    IN  (cfg.similarity_threshold > PadScore /\ cfg.para_threshold > PadScore) =>
            /\ real(rows, pair_hits)
            /\ real(paras, para_pair_hits)

\* a finished run with both thresholds just above the padding score, over a
\* sentence corpus and a paragraph corpus shorter than k+5 whose last record
\* (the one index -1 subscripts) belongs to another submission than the
\* first, with hits recorded at both levels
PaddingNeverRecordedWitness ==
    /\ pc = "done"
    /\ cfg.similarity_threshold = PadScore + 1
    /\ cfg.para_threshold = PadScore + 1
    /\ rows # <<>> /\ Len(rows) < cfg.index_top_k + SearchExtra
    /\ paras # <<>> /\ Len(paras) < cfg.para_top_k + SearchExtra
    /\ rows[Len(rows)].sid # rows[1].sid
    /\ paras[Len(paras)].sid # paras[1].sid
    /\ pair_hits # <<>>
    /\ para_pair_hits # <<>>

\* C26: in every dashboard session state selected_pair is empty or an index
\* into the sentence-stats list of the current results; a successful run
\* without pairs does not leave it pointing into the results it replaced.
SelectedPairValid ==
    \/ selected_pair = None
    \/ /\ results # None
       /\ 0 <= selected_pair[1]
       /\ selected_pair[1] < Len(results[1].sent_stats)

\* C27: a write_reports call with an empty paragraph list neither deletes nor
\* rewrites the paragraph reports an earlier invocation left in the output
\* directory and creates none: after it the two paragraph files are as the
\* earlier invocation left them, while the three sentence files hold the
\* results of this run.
StaleParagraphReportsKept ==
    (/\ pc = "done"
     /\ earlier # None
     /\ (para_stats = <<>> \/ para_details = <<>>)) =>
        /\ \A name \in ParagraphReports :
            IF earlier[1].files # <<>> /\ name \in DOMAIN earlier[1].files
            THEN /\ name \in DOMAIN outdir.files
                 /\ outdir.files[name] = earlier[1].files[name]
            ELSE name \notin DOMAIN outdir.files
        /\ outdir.files["pair_summary.csv"] = [rows |-> stats]
        /\ outdir.files["pair_results.json"] = [pairs |-> details]
        /\ written = SentenceReports

\* the second invocation found no paragraph pair and other sentence results
\* than the first: the paragraph reports on disk list the pairs of the first
\* invocation next to sentence reports of the second
StaleParagraphReportsKeptWitness ==
    /\ pc = "done"
    /\ earlier # None
    /\ para_stats = <<>>
    /\ ParagraphReports \subseteq DOMAIN outdir.files
    /\ outdir.files["paragraph_summary.csv"].rows # <<>>
    /\ outdir.files["paragraph_results.json"].pairs # <<>>
    /\ outdir.files["pair_summary.csv"] = [rows |-> stats]
    /\ outdir.files["pair_summary.csv"] # earlier[1].files["pair_summary.csv"]
====
